---- MODULE Spec2Model ----
(***************************************************************************)
(* Model of the local media index and cache of nsri                        *)
(* (app/fileCache.server.ts): the SQLite store with its four tables        *)
(* files, history, playlists, playlist_items, and the FileCache methods    *)
(* that read and write them.                                               *)
(*                                                                         *)
(* Each subsystem has its own specification over the shared variables:     *)
(*   SpecPlaylist  playlists and playlist_items                            *)
(*   SpecOverlap   overlapping calls, reorders within the playlist         *)
(*   SpecTouch     the same while the clock goes on                        *)
(*   SpecCrash     removeFromPlaylist and reorderPlaylistItem statement by *)
(*                 statement, with the process stopping in between         *)
(*   SpecCatalog   createPlaylist, updatePlaylist, deletePlaylist          *)
(*   SpecOwnership playlists and their items under deletePlaylist          *)
(*   SpecHistory   the history table and its listings                      *)
(*   SpecFiles     the files table, the disk and getOrCreateFileRecord     *)
(*   SpecFilesConcurrent, SpecThumbnails  overlapping callers              *)
(*   SpecSweep     getCachedRecord and cleanupMissingFiles, files vanish   *)
(*   SpecScan      getMediaFromDirectory and its background loop           *)
(*   SpecScans     scans issued while earlier background loops run         *)
(*   SpecListing   the list-directories action with includeFiles           *)
(*   SpecDedup     the pure function deduplicateFiles                      *)
(* An async method is one action per stretch of code between two awaits;   *)
(* a synchronous method is one action.                                     *)
(***************************************************************************)
EXTENDS Integers, Sequences, FiniteSets, TLC

VARIABLES
    now,             \* strftime('%s','now'): the clock, in whole seconds
    last,            \* the operation that ran last, with what it observed
    \* ---- playlists ----
    playlists,       \* rows of table playlists
    playlist_items,  \* rows of table playlist_items
    addCalls,        \* addToPlaylist calls suspended at their await (two calls
                     \* suspended with the same arguments and the same
                     \* MAX(order_index) act alike and are one element)
    mutation,        \* the removeFromPlaylist or reorderPlaylistItem call
                     \* between two of its statements, or the crash that
                     \* ended it
    nextPlaylistId,  \* AUTOINCREMENT counter of playlists.id
    foreign_keys,    \* PRAGMA foreign_keys of the connection
    \* ---- history ----
    history,         \* rows of table history
    nextHistoryId,   \* AUTOINCREMENT counter of history.id
    \* ---- files ----
    disk,            \* the files on disk, by path
    thumbnails,      \* the hashes h for which public/thumbnails/<h>.jpg exists
    files,           \* rows of table files
    nextFileId,      \* AUTOINCREMENT counter of files.id
    calls,           \* getOrCreateFileRecord calls in flight, by call slot
    fresh,           \* by path: a call on the path has returned and the file
                     \* was not modified since that call read its stat
    modifications,   \* how often a file on disk was modified
    sweep,           \* the cleanupMissingFiles call in flight
    scan,            \* the getMediaFromDirectory call in flight
    loops,           \* the background loops of the scans that have
                     \* returned: the call slot and the files still to do
    listing,         \* the list-directories action in flight
    \* ---- deduplication ----
    dedupIn,         \* the argument of deduplicateFiles
    dedupOut         \* its result

varsMutation == <<mutation, nextPlaylistId, foreign_keys>>
varsPlaylist == <<playlists, playlist_items, addCalls, varsMutation>>
varsHistory == <<history, nextHistoryId>>
varsSweep == <<sweep, scan, loops, listing>>
varsFiles == <<disk, thumbnails, files, nextFileId, calls, fresh, modifications,
               varsSweep>>
varsDedup == <<dedupIn, dedupOut>>
vars == <<now, last, varsPlaylist, varsMutation, varsHistory, varsFiles, varsDedup>>

(***************************************************************************)
(* Bounds                                                                  *)
(***************************************************************************)
MaxNow == 1            \* the clock takes the values 0..MaxNow
NumUrls == 3           \* media URLs 1..NumUrls
NumPlaylists == 2      \* playlists 1..NumPlaylists
MaxAddCalls == 2       \* addToPlaylist calls in flight at once
MaxItems == 3          \* rows of playlist_items plus calls in flight
NumValues == 2         \* directories, user ids, album URLs 1..NumValues
NumPlatforms == 2      \* platforms 1..NumPlatforms
NumServices == 2       \* services 1..NumServices
NumTags == 1           \* RedGifs user names and tag strings 1..NumTags
MaxHistoryId == 3      \* history.id values handed out
MaxLimit == 2          \* the limit of a listing
NumPaths == 3          \* paths 1..NumPaths: 1 is an .mp4, 2 a .jpg, 3 an .m4v
MaxCalls == 2          \* getOrCreateFileRecord calls in flight at once
MaxModifications == 1  \* modifications of files on disk
NumSizes == 2          \* file sizes 1..NumSizes
MaxHalfMs == 2         \* mtimeMs in half milliseconds, 0..MaxHalfMs
NumVideos == 2         \* video streams (image data) 1..NumVideos
NumRests == 2          \* the rest of a file (container, metadata) 1..NumRests
NumNames == 2          \* playlist names 1..NumNames
MaxLen == 5            \* records in a list given to deduplicateFiles
NumHashes == 3         \* hash values 1..NumHashes

Urls == 1..NumUrls
PlaylistIds == 1..NumPlaylists
\* newIndex comes unvalidated from the request body: one value below the
\* valid range, the valid range, and one value above it
NewIndexes == (0 - 1)..NumUrls
Times == 0..MaxNow
\* order_index grows without bound when adds overlap removes; adds stop here
MaxOrderIndex == NumUrls + 1

\* SQL NULL, and a non-null value v, for nullable columns
NULL == << >>
Some(v) == <<v>>

NoOp == [op |-> "none"]

(***************************************************************************)
(* The clock                                                               *)
(***************************************************************************)
Tick ==
    /\ now < MaxNow
    /\ now' = now + 1
    /\ last' = [op |-> "tick"]
    /\ UNCHANGED <<varsPlaylist, varsHistory, varsFiles, varsDedup>>

(***************************************************************************)
(* Playlists                                                               *)
(***************************************************************************)
ItemsOf(items, pid) == {it \in items : it.playlist_id = pid}

\* SELECT * FROM playlist_items WHERE playlist_id = ? AND media_url = ?
ItemQuery(items, pid, url) == {it \in items : it.playlist_id = pid /\ it.media_url = url}

\* No UPDATE of updated_at
TouchNothing(pls, pid, t) == pls

\* UPDATE playlists SET updated_at = strftime('%s','now') WHERE id = ?
TouchPlaylist(pls, pid, t) ==
    {IF p.id = pid THEN [p EXCEPT !.updated_at = t] ELSE p : p \in pls}

\* SELECT MAX(order_index) ...; (result?.max_order ?? -1) + 1
NextOrder(items, pid) ==
    LET own == ItemsOf(items, pid)
    IN  IF own = {} THEN 0
        ELSE (CHOOSE m \in {it.order_index : it \in own} :
                 \A it \in own : it.order_index <= m) + 1

\* The rows of before that are no longer in after with the same index
RowsChanged(before, after) == {it \in before : it \notin after}

\* What generatePlaylistThumbnail resolves with: a thumbnail reference, or
\* null when there is none to be had or anything in it failed (its body
\* is one try/catch that returns null)
PlaylistThumbnails == {NULL, Some("thumbnail")}

\* addToPlaylist up to its await: reads MAX(order_index), then suspends in
\* generatePlaylistThumbnail
addToPlaylistBegin(pid, url) ==
    /\ Cardinality(addCalls) < MaxAddCalls
    /\ Cardinality(addCalls) + Cardinality(playlist_items) < MaxItems
    /\ NextOrder(playlist_items, pid) <= MaxOrderIndex
    /\ addCalls' = addCalls \cup
          {[playlist_id |-> pid, media_url |-> url,
            nextOrder |-> NextOrder(playlist_items, pid)]}
    /\ last' = [op |-> "addBegin"]
    /\ UNCHANGED <<now, playlists, playlist_items, varsMutation, varsHistory, varsFiles, varsDedup>>

InsertAlways(items, row) == items \cup {row}

\* INSERT OR IGNORE INTO playlist_items ...: a row with the same
\* (playlist_id, media_url) makes the statement a no-op
InsertOrIgnore(items, row) ==
    IF ItemQuery(items, row.playlist_id, row.media_url) # {}
    THEN items
    ELSE items \cup {row}

\* FOREIGN KEY (playlist_id) REFERENCES playlists(id): the INSERT of an
\* item fails when foreign keys are enforced and no playlist has the id
\* (OR IGNORE does not cover a foreign key violation)
ForeignKeyFails(pls, pid) == foreign_keys /\ \A p \in pls : p.id # pid

\* addToPlaylist after its await (generatePlaylistThumbnail catches every
\* error, so the method always resumes): INSERT OR IGNORE, then the
\* timestamp UPDATE
addToPlaylistFinish(c) ==
    /\ c \in addCalls
    /\ IF ForeignKeyFails(playlists, c.playlist_id)
       THEN /\ last' = [op |-> "throw", method |-> "addToPlaylist", error |-> "FOREIGN KEY"]
            /\ UNCHANGED <<playlists, playlist_items>>
       ELSE /\ playlist_items' = InsertOrIgnore(playlist_items,
                  [playlist_id |-> c.playlist_id, media_url |-> c.media_url,
                   order_index |-> c.nextOrder])
            /\ playlists' = TouchPlaylist(playlists, c.playlist_id, now)
            /\ \E thumbnailPath \in PlaylistThumbnails :
                  last' = [op |-> "add",
                           ignored |-> ItemQuery(playlist_items, c.playlist_id,
                                                 c.media_url) # {},
                           thumbnail_path |-> thumbnailPath]
    /\ addCalls' = addCalls \ {c}
    /\ UNCHANGED <<now, varsMutation, varsHistory, varsFiles, varsDedup>>

\* UPDATE playlist_items SET order_index = order_index + d
\*  WHERE playlist_id = ? AND order_index >= lo AND order_index <= hi
ShiftItems(items, pid, lo, hi, d) ==
    {IF it.playlist_id = pid /\ it.order_index >= lo /\ it.order_index <= hi
     THEN [it EXCEPT !.order_index = @ + d] ELSE it : it \in items}

\* UPDATE playlist_items SET order_index = order_index - 1
\*  WHERE playlist_id = ? AND order_index > i
DecrementAbove(items, pid, i) ==
    {IF it.playlist_id = pid /\ it.order_index > i
     THEN [it EXCEPT !.order_index = @ - 1] ELSE it : it \in items}

RemoveItemsNoShift(items, pid, url) ==
    {it \in items : ~(it.playlist_id = pid /\ it.media_url = url)}

\* removeFromPlaylist: SELECT the item; if found DELETE it and decrement
\* the indices above it
RemoveItems(items, pid, url) ==
    LET found == ItemQuery(items, pid, url)
    IN  IF found = {} THEN items
        ELSE LET item == CHOOSE it \in found : TRUE
             IN  DecrementAbove(
                    {it \in items : ~(it.playlist_id = pid /\ it.media_url = url)},
                    pid, item.order_index)

\* removeFromPlaylist; the timestamp UPDATE is inside the if (item)
removeFromPlaylist(pid, url) ==
    /\ playlist_items' = RemoveItems(playlist_items, pid, url)
    /\ playlists' = IF ItemQuery(playlist_items, pid, url) # {}
                    THEN TouchPlaylist(playlists, pid, now) ELSE playlists
    /\ last' = [op |-> "remove", found |-> ItemQuery(playlist_items, pid, url) # {},
                shifted |-> Cardinality(RowsChanged(playlist_items, playlist_items')) > 1]
    /\ UNCHANGED <<now, addCalls, varsMutation, varsHistory, varsFiles, varsDedup>>

\* reorderPlaylistItem: SELECT the item; return if absent or already at
\* newIndex; shift the items in between; set the moved item's index
ReorderItems(items, pid, url, newIndex) ==
    LET found == ItemQuery(items, pid, url)
    IN  IF found = {} THEN items
        ELSE LET oldIndex == (CHOOSE it \in found : TRUE).order_index
                 shifted == IF oldIndex < newIndex
                            THEN ShiftItems(items, pid, oldIndex + 1, newIndex, 0 - 1)
                            ELSE ShiftItems(items, pid, newIndex, oldIndex - 1, 1)
             IN  IF oldIndex = newIndex THEN items
                 ELSE {IF it.playlist_id = pid /\ it.media_url = url
                       THEN [it EXCEPT !.order_index = newIndex] ELSE it
                       : it \in shifted}

\* reorderPlaylistItem; the timestamp UPDATE is after both early returns
reorderPlaylistItem(pid, url, newIndex) ==
    /\ playlist_items' = ReorderItems(playlist_items, pid, url, newIndex)
    /\ playlists' =
          IF \E it \in ItemQuery(playlist_items, pid, url) : it.order_index # newIndex
          THEN TouchPlaylist(playlists, pid, now) ELSE playlists
    /\ last' = [op |-> "reorder", found |-> ItemQuery(playlist_items, pid, url) # {},
                inRange |-> newIndex \in 0..(Cardinality(ItemsOf(playlist_items, pid)) - 1),
                shifted |-> Cardinality(RowsChanged(playlist_items, playlist_items')) > 1]
    /\ UNCHANGED <<now, addCalls, varsMutation, varsHistory, varsFiles, varsDedup>>

\* The other subsystems' variables, where a specification leaves them alone
IdleMutation == mutation = NULL /\ nextPlaylistId = NumPlaylists + 1 /\ foreign_keys = FALSE
IdlePlaylist == playlists = {} /\ playlist_items = {} /\ addCalls = {} /\ IdleMutation
IdleSweep == sweep = NULL /\ scan = NULL /\ loops = {} /\ listing = NULL
IdleHistory == history = {} /\ nextHistoryId = 1
IdleFiles ==
    /\ disk = NULL /\ thumbnails = {} /\ files = {} /\ nextFileId = 1
    /\ calls = NULL /\ fresh = NULL /\ modifications = 0
    /\ IdleSweep
IdleDedup == dedupIn = << >> /\ dedupOut = << >>

\* The store as a process finds it: the database file persists, here with
\* the playlists created and no item yet
InitPlaylist ==
    /\ now = 0
    /\ last = NoOp
    /\ playlists = {[id |-> p, name |-> p, description |-> NULL, updated_at |-> 0]
                        : p \in PlaylistIds}
    /\ playlist_items = {}
    /\ addCalls = {}
    /\ IdleMutation
    /\ IdleHistory /\ IdleFiles /\ IdleDedup

NextPlaylist ==
    \/ \E pid \in PlaylistIds, url \in Urls : addToPlaylistBegin(pid, url)
    \/ \E c \in addCalls : addToPlaylistFinish(c)
    \/ \E pid \in PlaylistIds, url \in Urls : removeFromPlaylist(pid, url)
    \/ \E pid \in PlaylistIds, url \in Urls, j \in NewIndexes : reorderPlaylistItem(pid, url, j)

SpecPlaylist == InitPlaylist /\ [][NextPlaylist]_vars

\* Calls that overlap, every reorderPlaylistItem with a newIndex that is an
\* index of the playlist
NextOverlap ==
    \/ \E pid \in PlaylistIds, url \in Urls : addToPlaylistBegin(pid, url)
    \/ \E c \in addCalls : addToPlaylistFinish(c)
    \/ \E pid \in PlaylistIds, url \in Urls : removeFromPlaylist(pid, url)
    \/ \E pid \in PlaylistIds, url \in Urls :
          \E j \in 0..(Cardinality(ItemsOf(playlist_items, pid)) - 1) :
             reorderPlaylistItem(pid, url, j)

SpecOverlap == InitPlaylist /\ [][NextOverlap]_vars

\* The same calls, with one addToPlaylist at a time, while the clock goes on
NextTouch ==
    \/ Tick
    \/ \E pid \in PlaylistIds, url \in Urls : addCalls = {} /\ addToPlaylistBegin(pid, url)
    \/ \E c \in addCalls : addToPlaylistFinish(c)
    \/ \E pid \in PlaylistIds, url \in Urls : removeFromPlaylist(pid, url)
    \/ \E pid \in PlaylistIds, url \in Urls, j \in NewIndexes : reorderPlaylistItem(pid, url, j)

SpecTouch == InitPlaylist /\ [][NextTouch]_vars

(***************************************************************************)
(* removeFromPlaylist and reorderPlaylistItem statement by statement: each *)
(* db.run commits on its own, and the process may stop between two of them *)
(***************************************************************************)
\* DELETE FROM playlist_items WHERE playlist_id = ? AND media_url = ?
DeleteItem(items, pid, url) ==
    {it \in items : ~(it.playlist_id = pid /\ it.media_url = url)}

\* UPDATE playlist_items SET order_index = ? WHERE playlist_id = ? AND
\* media_url = ?
SetIndex(items, pid, url, newIndex) ==
    {IF it.playlist_id = pid /\ it.media_url = url
     THEN [it EXCEPT !.order_index = newIndex] ELSE it : it \in items}

\* A call between two statements; before is no part of the program: the
\* items as the call found them
Mutation(method, pid, url, index, newIndex, stage) ==
    Some([method |-> method, playlist_id |-> pid, media_url |-> url,
          index |-> index, newIndex |-> newIndex, stage |-> stage,
          before |-> IF mutation = NULL THEN playlist_items ELSE mutation[1].before])

\* removeFromPlaylist: the SELECT and, if (item), the DELETE
removeFromPlaylistDelete(pid, url) ==
    /\ mutation = NULL
    /\ LET found == ItemQuery(playlist_items, pid, url)
       IN  IF found = {}
           THEN /\ last' = [op |-> "remove", found |-> FALSE, shifted |-> FALSE]
                /\ UNCHANGED <<playlist_items, mutation>>
           ELSE /\ playlist_items' = DeleteItem(playlist_items, pid, url)
                /\ mutation' = Mutation("remove", pid, url,
                                        (CHOOSE it \in found : TRUE).order_index, 0, "delete")
                /\ last' = [op |-> "statement"]
    /\ UNCHANGED <<now, playlists, addCalls, nextPlaylistId, foreign_keys,
                   varsHistory, varsFiles, varsDedup>>

\* removeFromPlaylist: the UPDATE that closes the gap
removeFromPlaylistShift ==
    /\ mutation # NULL
    /\ LET m == mutation[1]
       IN  /\ m.method = "remove" /\ m.stage = "delete"
           /\ playlist_items' = DecrementAbove(playlist_items, m.playlist_id, m.index)
           /\ mutation' = Mutation("remove", m.playlist_id, m.media_url, m.index, 0, "shift")
    /\ last' = [op |-> "statement"]
    /\ UNCHANGED <<now, playlists, addCalls, nextPlaylistId, foreign_keys,
                   varsHistory, varsFiles, varsDedup>>

\* reorderPlaylistItem: the SELECT, the two early returns, and the UPDATE
\* that shifts the items in between
reorderPlaylistItemShift(pid, url, newIndex) ==
    /\ mutation = NULL
    /\ LET found == ItemQuery(playlist_items, pid, url)
           oldIndex == (CHOOSE it \in found : TRUE).order_index
       IN  IF found = {} \/ oldIndex = newIndex
           THEN /\ last' = [op |-> "reorder", found |-> found # {}, inRange |-> TRUE,
                            shifted |-> FALSE]
                /\ UNCHANGED <<playlist_items, mutation>>
           ELSE /\ playlist_items' =
                      IF oldIndex < newIndex
                      THEN ShiftItems(playlist_items, pid, oldIndex + 1, newIndex, 0 - 1)
                      ELSE ShiftItems(playlist_items, pid, newIndex, oldIndex - 1, 1)
                /\ mutation' = Mutation("reorder", pid, url, oldIndex, newIndex, "shift")
                /\ last' = [op |-> "statement"]
    /\ UNCHANGED <<now, playlists, addCalls, nextPlaylistId, foreign_keys,
                   varsHistory, varsFiles, varsDedup>>

\* reorderPlaylistItem: the UPDATE of the moved item
reorderPlaylistItemSet ==
    /\ mutation # NULL
    /\ LET m == mutation[1]
       IN  /\ m.method = "reorder" /\ m.stage = "shift"
           /\ playlist_items' = SetIndex(playlist_items, m.playlist_id, m.media_url,
                                         m.newIndex)
           /\ mutation' = Mutation("reorder", m.playlist_id, m.media_url, m.index,
                                   m.newIndex, "set")
    /\ last' = [op |-> "statement"]
    /\ UNCHANGED <<now, playlists, addCalls, nextPlaylistId, foreign_keys,
                   varsHistory, varsFiles, varsDedup>>

\* The last statement of both methods, the timestamp UPDATE, and the return
mutationTouch ==
    /\ mutation # NULL
    /\ LET m == mutation[1]
       IN  /\ m.stage = (IF m.method = "remove" THEN "shift" ELSE "set")
           /\ playlists' = TouchPlaylist(playlists, m.playlist_id, now)
           /\ last' = [op |-> m.method, found |-> TRUE, inRange |-> TRUE,
                       shifted |-> Cardinality(RowsChanged(m.before, playlist_items)) > 1]
    /\ mutation' = NULL
    /\ UNCHANGED <<now, playlist_items, addCalls, nextPlaylistId, foreign_keys,
                   varsHistory, varsFiles, varsDedup>>

\* The process stops between two statements of the call, and is started
\* again: the database holds what the statements run so far have written.
\* complete is what the whole call would have left
Crash ==
    /\ mutation # NULL
    /\ LET m == mutation[1]
       IN  last' = [op |-> "crash", method |-> m.method, playlist_id |-> m.playlist_id,
                    before |-> m.before,
                    complete |-> IF m.method = "remove"
                                 THEN RemoveItems(m.before, m.playlist_id, m.media_url)
                                 ELSE ReorderItems(m.before, m.playlist_id, m.media_url,
                                                   m.newIndex)]
    /\ mutation' = NULL
    /\ UNCHANGED <<now, playlists, playlist_items, addCalls, nextPlaylistId,
                   foreign_keys, varsHistory, varsFiles, varsDedup>>

\* The store as a process finds it: playlist 1 holds every URL, in order
InitCrash ==
    /\ now = 0
    /\ last = NoOp
    /\ playlists = {[id |-> p, name |-> p, description |-> NULL, updated_at |-> 0]
                        : p \in PlaylistIds}
    /\ playlist_items = {[playlist_id |-> 1, media_url |-> u, order_index |-> u - 1]
                            : u \in Urls}
    /\ addCalls = {}
    /\ IdleMutation
    /\ IdleHistory /\ IdleFiles /\ IdleDedup

\* The calls of the route, with a newIndex inside the list
NextCrash ==
    \/ \E pid \in PlaylistIds, url \in Urls : removeFromPlaylistDelete(pid, url)
    \/ removeFromPlaylistShift
    \/ \E pid \in PlaylistIds, url \in Urls :
          \E j \in 0..(Cardinality(ItemsOf(playlist_items, pid)) - 1) :
             reorderPlaylistItemShift(pid, url, j)
    \/ reorderPlaylistItemSet
    \/ mutationTouch
    \/ Crash

SpecCrash == InitCrash /\ [][NextCrash]_vars

(***************************************************************************)
(* createPlaylist, updatePlaylist, deletePlaylist                          *)
(***************************************************************************)
PlaylistNames == 1..NumNames
\* an optional argument: NULL is undefined
Descriptions == {NULL, Some(1)}

NameNeverTaken(pls, name, id) == FALSE

\* name TEXT NOT NULL UNIQUE: a row other than the row id has the name
NameTaken(pls, name, id) == \E p \in pls : p.name = name /\ p.id # id

\* createPlaylist(name, description): one INSERT, which throws on a name
\* that is taken; description || null
createPlaylist(name, description) ==
    /\ nextPlaylistId <= NumPlaylists
    /\ IF NameTaken(playlists, name, 0)
       THEN /\ last' = [op |-> "throw", method |-> "createPlaylist", id |-> 0,
                        name |-> Some(name), error |-> "UNIQUE"]
            /\ UNCHANGED <<playlists, nextPlaylistId>>
       ELSE /\ playlists' = playlists \cup
                  {[id |-> nextPlaylistId, name |-> name, description |-> description,
                    updated_at |-> now]}
            /\ nextPlaylistId' = nextPlaylistId + 1
            /\ last' = [op |-> "createPlaylist", method |-> "createPlaylist",
                        id |-> nextPlaylistId, name |-> Some(name), error |-> ""]
    /\ UNCHANGED <<now, playlist_items, addCalls, mutation, foreign_keys,
                   varsHistory, varsFiles, varsDedup>>

\* updatePlaylist(id, name, description): throws when no playlist has the
\* id; with neither argument given no statement runs; else one UPDATE of
\* the given columns and updated_at, which throws on a name that is taken
updatePlaylist(id, name, description) ==
    /\ IF \A p \in playlists : p.id # id
       THEN /\ last' = [op |-> "throw", method |-> "updatePlaylist", id |-> id,
                        name |-> name, error |-> "Playlist not found"]
            /\ UNCHANGED playlists
       ELSE IF name = NULL /\ description = NULL
       THEN /\ last' = [op |-> "updatePlaylist", method |-> "updatePlaylist", id |-> id,
                        name |-> name, error |-> ""]
            /\ UNCHANGED playlists
       ELSE IF name # NULL /\ NameTaken(playlists, name[1], id)
       THEN /\ last' = [op |-> "throw", method |-> "updatePlaylist", id |-> id,
                        name |-> name, error |-> "UNIQUE"]
            /\ UNCHANGED playlists
       ELSE /\ playlists' =
                  {IF p.id = id
                   THEN [p EXCEPT !.name = IF name # NULL THEN name[1] ELSE @,
                                  !.description = IF description # NULL
                                                  THEN description ELSE @,
                                  !.updated_at = now]
                   ELSE p : p \in playlists}
            /\ last' = [op |-> "updatePlaylist", method |-> "updatePlaylist", id |-> id,
                        name |-> name, error |-> ""]
    /\ UNCHANGED <<now, playlist_items, addCalls, varsMutation,
                   varsHistory, varsFiles, varsDedup>>

DeleteOwnedItemsAlways(items, pid) == {it \in items : it.playlist_id # pid}

\* ON DELETE CASCADE: the items of a deleted playlist go with it when
\* foreign keys are enforced
DeleteOwnedItems(items, pid) ==
    IF foreign_keys THEN {it \in items : it.playlist_id # pid} ELSE items

\* deletePlaylist(id): DELETE FROM playlists WHERE id = ?
deletePlaylist(id) ==
    /\ playlists' = {p \in playlists : p.id # id}
    /\ playlist_items' = DeleteOwnedItems(playlist_items, id)
    /\ last' = [op |-> "deletePlaylist", method |-> "deletePlaylist", id |-> id,
                name |-> NULL, error |-> ""]
    /\ UNCHANGED <<now, addCalls, varsMutation, varsHistory, varsFiles, varsDedup>>

\* A fresh database.  The source sets no PRAGMA foreign_keys, so the
\* connection has the default of the SQLite library it runs on: off,
\* unless the library was built with SQLITE_DEFAULT_FOREIGN_KEYS=1
InitCatalog ==
    /\ now = 0
    /\ last = NoOp
    /\ playlists = {}
    /\ playlist_items = {}
    /\ addCalls = {}
    /\ mutation = NULL
    /\ nextPlaylistId = 1
    /\ foreign_keys \in BOOLEAN
    /\ IdleHistory /\ IdleFiles /\ IdleDedup

\* The calls of the route that create, change and delete playlists, and
\* addToPlaylist, one call at a time, for items to be there
NextCatalog ==
    \/ \E name \in PlaylistNames, d \in Descriptions : createPlaylist(name, d)
    \/ \E id \in PlaylistIds, name \in {NULL} \cup {Some(n) : n \in PlaylistNames},
          d \in Descriptions : updatePlaylist(id, name, d)
    \/ \E id \in PlaylistIds : deletePlaylist(id)
    \/ \E pid \in PlaylistIds, url \in Urls : addCalls = {} /\ addToPlaylistBegin(pid, url)
    \/ \E c \in addCalls : addToPlaylistFinish(c)

SpecCatalog == InitCatalog /\ [][NextCatalog]_vars

\* The calls that make and remove playlists and items, the ids of
\* playlists that are not there included; one addToPlaylist at a time and
\* newIndex inside the list
NextOwnership ==
    \/ \E name \in PlaylistNames : createPlaylist(name, NULL)
    \/ \E id \in PlaylistIds : deletePlaylist(id)
    \/ \E pid \in PlaylistIds, url \in Urls : addCalls = {} /\ addToPlaylistBegin(pid, url)
    \/ \E c \in addCalls : addToPlaylistFinish(c)
    \/ \E pid \in PlaylistIds, url \in Urls : removeFromPlaylist(pid, url)
    \/ \E pid \in PlaylistIds, url \in Urls :
          \E j \in 0..(Cardinality(ItemsOf(playlist_items, pid)) - 1) :
             reorderPlaylistItem(pid, url, j)

SpecOwnership == InitCatalog /\ [][NextOwnership]_vars

(***************************************************************************)
(* History                                                                 *)
(***************************************************************************)
Types == {"directory", "user", "redgifs", "bunkr"}
Values == 1..NumValues
Platforms == 1..NumPlatforms
Services == 1..NumServices
\* a string argument of addRedgifsToHistory: 0 is the empty string
RedgifsStrings == 0..NumTags
\* the order argument: 0 is the empty string, 1 is 'latest', 2 another order
Orders == 0..2
Limits == 0..MaxLimit
HistoryIds == 1..MaxHistoryId

\* A directory argument: directory d written with or without a trailing
\* slash; path.resolve gives both the same normalized path
DirectoryPaths == {[dir |-> d, slash |-> b] : d \in Values, b \in BOOLEAN}
Resolve(p) == <<"path", p.dir>>

\* A conflict target without the service
ConflictingRowsAnyService(rows, type, value, platform, service) ==
    {r \in rows : /\ r.type = type /\ r.value = value
                  /\ r.platform = platform
                  /\ platform # NULL /\ service # NULL}

\* UNIQUE(type, value, platform, service): the rows an INSERT of this key
\* conflicts with.  SQLite takes two NULLs in a UNIQUE column to be
\* distinct, so a key with a NULL platform or service conflicts with no row.
ConflictingRows(rows, type, value, platform, service) ==
    {r \in rows : /\ r.type = type /\ r.value = value
                  /\ r.platform = platform /\ r.service = service
                  /\ platform # NULL /\ service # NULL}

\* INSERT INTO history (...) VALUES (..., strftime('%s','now'), 1)
\*  ON CONFLICT(type, value, platform, service) DO UPDATE SET
\*    last_used = strftime('%s','now'), use_count = use_count + 1
Upsert(rows, id, type, value, platform, service, t) ==
    LET hit == ConflictingRows(rows, type, value, platform, service)
    IN  IF hit # {}
        THEN {IF r \in hit
              THEN [r EXCEPT !.last_used = t, !.use_count = @ + 1]
              ELSE r : r \in rows}
        ELSE rows \cup {[id |-> id, type |-> type, value |-> value,
                         platform |-> platform, service |-> service,
                         last_used |-> t, use_count |-> 1]}

\* What last holds after one of the add*ToHistory methods: the key it wrote
Recorded(type, value, platform, service) ==
    [op |-> "record", type |-> type, value |-> value,
     platform |-> platform, service |-> service]

\* addDirectoryToHistory: platform and service are not given (NULL).  The
\* AUTOINCREMENT counter moves on also when an INSERT ends in the UPDATE.
addDirectoryToHistory(directoryPath) ==
    /\ nextHistoryId <= MaxHistoryId
    /\ history' = Upsert(history, nextHistoryId, "directory",
                         Resolve(directoryPath), NULL, NULL, now)
    /\ nextHistoryId' = nextHistoryId + 1
    /\ last' = Recorded("directory", Resolve(directoryPath), NULL, NULL)
    /\ UNCHANGED <<now, varsPlaylist, varsFiles, varsDedup>>

\* addUserToHistory
addUserToHistory(userId, platform, service) ==
    /\ nextHistoryId <= MaxHistoryId
    /\ history' = Upsert(history, nextHistoryId, "user",
                         <<"id", userId>>, Some(platform), Some(service), now)
    /\ nextHistoryId' = nextHistoryId + 1
    /\ last' = Recorded("user", <<"id", userId>>, Some(platform), Some(service))
    /\ UNCHANGED <<now, varsPlaylist, varsFiles, varsDedup>>

\* const value = username || `tags:${tags}`
RedgifsValue(username, tags) ==
    IF username # 0 THEN <<"name", username>> ELSE <<"tags:", tags>>
\* tags || null
RedgifsPlatform(tags) == IF tags # 0 THEN Some(tags) ELSE NULL
\* order || 'latest'
RedgifsService(order) == Some(IF order # 0 THEN order ELSE 1)

\* addRedgifsToHistory
addRedgifsToHistory(username, tags, order) ==
    /\ nextHistoryId <= MaxHistoryId
    /\ history' = Upsert(history, nextHistoryId, "redgifs",
                         RedgifsValue(username, tags), RedgifsPlatform(tags),
                         RedgifsService(order), now)
    /\ nextHistoryId' = nextHistoryId + 1
    /\ last' = Recorded("redgifs", RedgifsValue(username, tags),
                        RedgifsPlatform(tags), RedgifsService(order))
    /\ UNCHANGED <<now, varsPlaylist, varsFiles, varsDedup>>

\* addBunkrToHistory: platform and service are not given (NULL)
addBunkrToHistory(albumUrl) ==
    /\ nextHistoryId <= MaxHistoryId
    /\ history' = Upsert(history, nextHistoryId, "bunkr",
                         <<"url", albumUrl>>, NULL, NULL, now)
    /\ nextHistoryId' = nextHistoryId + 1
    /\ last' = Recorded("bunkr", <<"url", albumUrl>>, NULL, NULL)
    /\ UNCHANGED <<now, varsPlaylist, varsFiles, varsDedup>>

\* deleteHistoryEntry: DELETE FROM history WHERE id = ?
deleteHistoryEntry(id) ==
    /\ history' = {r \in history : r.id # id}
    /\ last' = [op |-> "delete"]
    /\ UNCHANGED <<now, nextHistoryId, varsPlaylist, varsFiles, varsDedup>>

\* clearHistory(type?): DELETE FROM history [WHERE type = ?]; type = NULL
\* is the call without a type
clearHistory(type) ==
    /\ history' = IF type = NULL THEN {} ELSE {r \in history : Some(r.type) # type}
    /\ last' = [op |-> "clear"]
    /\ UNCHANGED <<now, nextHistoryId, varsPlaylist, varsFiles, varsDedup>>

\* SELECT ... ORDER BY last_used DESC LIMIT ? over the rows matching the
\* WHERE clause: the sequences SQL may return.  Rows with equal last_used
\* come in an order SQL leaves open.
OrderedByRecency(matching, limit) ==
    LET n == IF Cardinality(matching) < limit THEN Cardinality(matching) ELSE limit
    IN  {s \in [1..n -> matching] :
            /\ \A a, b \in 1..n : a # b => s[a] # s[b]
            /\ \A a, b \in 1..n : a < b => s[a].last_used >= s[b].last_used
            /\ \A r \in matching :
                  (\A a \in 1..n : s[a] # r) =>
                      \A a \in 1..n : s[a].last_used >= r.last_used}

\* The listings read the table and change nothing: each is the set of the
\* results the query may give in the current state.

\* getRecentDirectories(limit)
getRecentDirectories(limit) ==
    OrderedByRecency({r \in history : r.type = "directory"}, limit)

\* getRecentUsers(limit, platform?, service?): the three branches; platform
\* and service are NULL when not given
getRecentUsers(limit, platform, service) ==
    IF platform # NULL /\ service # NULL
    THEN OrderedByRecency({r \in history : /\ r.type = "user"
                                           /\ r.platform = platform
                                           /\ r.service = service}, limit)
    ELSE IF platform # NULL
    THEN OrderedByRecency({r \in history : r.type = "user" /\ r.platform = platform},
                          limit)
    ELSE OrderedByRecency({r \in history : r.type = "user"}, limit)

\* getRecentRedgifs(limit)
getRecentRedgifs(limit) ==
    OrderedByRecency({r \in history : r.type = "redgifs"}, limit)

\* getRecentBunkr(limit)
getRecentBunkr(limit) ==
    OrderedByRecency({r \in history : r.type = "bunkr"}, limit)

\* A fresh database
InitHistory ==
    /\ now = 0
    /\ last = NoOp
    /\ history = {}
    /\ nextHistoryId = 1
    /\ IdlePlaylist /\ IdleFiles /\ IdleDedup

NextHistory ==
    \/ Tick
    \/ \E p \in DirectoryPaths : addDirectoryToHistory(p)
    \/ \E u \in Values, p \in Platforms, sv \in Services : addUserToHistory(u, p, sv)
    \/ \E u \in RedgifsStrings, t \in RedgifsStrings, o \in Orders : addRedgifsToHistory(u, t, o)
    \/ \E a \in Values : addBunkrToHistory(a)
    \/ \E id \in HistoryIds : deleteHistoryEntry(id)
    \/ \E t \in {NULL} \cup {Some(ty) : ty \in Types} : clearHistory(t)

SpecHistory == InitHistory /\ [][NextHistory]_vars

(***************************************************************************)
(* The files table: hashFile, generateThumbnail, getOrCreateFileRecord     *)
(***************************************************************************)
Paths == 1..NumPaths
CallIds == 1..MaxCalls

\* path.extname(filePath).toLowerCase()
Ext(p) == IF p = 1 THEN ".mp4" ELSE IF p = 2 THEN ".jpg" ELSE ".m4v"

\* The list of hashFile and generateThumbnail
videoExtensions ==
    {".mp4", ".webm", ".mov", ".avi", ".mkv", ".m4v", ".3gp", ".flv", ".ogv"}
\* The list of getOrCreateFileRecord, for the duration
durationExtensions == {".mp4", ".webm", ".mov", ".avi", ".mkv"}

\* What a file holds: its video stream (for an image, the image) and the
\* rest (container, audio, metadata)
Contents == [video : 1..NumVideos, rest : 1..NumRests]
\* A file on disk as stat and a read see it
FileStates == [size : 1..NumSizes, mtimeMs : 0..MaxHalfMs, content : Contents]

\* Math.floor(stats.mtimeMs), mtimeMs counted in half milliseconds
FloorMs(mtimeMs) == mtimeMs \div 2

\* stat(normalizedPath): size and the floored mtimeMs
Stat(file) == [size |-> file.size, mtime |-> FloorMs(file.mtimeMs)]

\* ffmpeg -map 0:v -codec copy -f md5: digest of the video stream alone
StreamHash(content) == <<"v", content.video>>
\* createHash("md5") over the whole file
FileHash(content) == <<"f", content.video, content.rest>>

\* hashFile: what it may return for a file of this content.  For a video
\* extension ffmpeg's digest, or the whole-file digest when ffmpeg fails or
\* its output does not parse; for any other file the whole-file digest.
hashFile(p, content) ==
    IF Ext(p) \in videoExtensions
    THEN {StreamHash(content), FileHash(content)}
    ELSE {FileHash(content)}

\* How the stream hashing of hashFile ends: ffmpeg prints MD5=<digest>;
\* Bun.spawn throws because the tool is missing; the process fails; its
\* output holds no digest
FfmpegOutcomes == {"md5", "missing", "error", "garbage"}
\* "none": the file is no video and ffmpeg is not run
HashOutcomes(p) == IF Ext(p) \in videoExtensions THEN FfmpegOutcomes ELSE {"none"}

HashOfStreamAlways(p, content, outcome) ==
    IF Ext(p) \in videoExtensions THEN StreamHash(content) ELSE FileHash(content)

\* What hashFile returns after this outcome: match[1], else (the catch,
\* the failed match, a file that is no video) the digest of the whole file
HashOf(p, content, outcome) ==
    IF Ext(p) \in videoExtensions /\ outcome = "md5"
    THEN StreamHash(content) ELSE FileHash(content)

\* An exception that leaves getOrCreateFileRecord, where a value is expected
Thrown == Some(0 - 1)

DurationsUncaught(content) == {Thrown, Some(content.video)}

\* try { duration = await getVideoDurationInSeconds(...) } catch { }: the
\* seconds, or null when it throws
Durations(content) == {NULL, Some(content.video)}

\* `/thumbnails/${hash}.jpg`
ThumbnailRef(hash) == Some(hash)

ThumbnailStartNoCheck(p, hash) ==
    IF Ext(p) \notin videoExtensions THEN "null" ELSE "spawn"

\* generateThumbnail up to its first spawn: null for a file that is no
\* video, the reference when the asset exists, else ffmpeg is spawned
ThumbnailStart(p, hash) ==
    IF Ext(p) \notin videoExtensions THEN "null"
    ELSE IF hash \in thumbnails THEN "ref"
    ELSE "spawn"

\* SELECT * FROM files WHERE path = ?
RowsOf(rows, p) == {r \in rows : r.path = p}

IdleCall ==
    [stage |-> "idle", path |-> 0, stats |-> NULL, existing |-> NULL,
     hash |-> NULL, read |-> NULL, duration |-> NULL, fast |-> FALSE,
     second |-> FALSE, clean |-> FALSE, hashed |-> FALSE, spawned |-> FALSE,
     hadAsset |-> FALSE, generated |-> NULL, ffmpeg |-> "none"]

\* The stages of a call that waits for an ffmpeg frame extraction
ThumbStages == {"thumb5", "thumb2", "thumb1"}

AlwaysChanged(row, stats) == FALSE

\* existing.mtime === mtimeMs && existing.size === stats.size
Unchanged(row, stats) == row.mtime = stats.mtime /\ row.size = stats.size

\* UPDATE files SET thumbnail_path = ? WHERE path = ?
UpdateThumbnailPath(rows, p, thumbnailPath) ==
    {IF r.path = p THEN [r EXCEPT !.thumbnail_path = thumbnailPath] ELSE r : r \in rows}

UpdateFileRowKeepStamp(rows, p, hash, stats, duration, thumbnailPath, read) ==
    {IF r.path = p
     THEN [r EXCEPT !.hash = hash, !.duration = duration,
                    !.thumbnail_path = thumbnailPath, !.hashedContent = read]
     ELSE r : r \in rows}

\* UPDATE files SET hash = ?, size = ?, mtime = ?, duration = ?,
\*                  thumbnail_path = ? WHERE path = ?
\* hashedContent is no column: it remembers what content the hash was made of
UpdateFileRow(rows, p, hash, stats, duration, thumbnailPath, read) ==
    {IF r.path = p
     THEN [r EXCEPT !.hash = hash, !.size = stats.size, !.mtime = stats.mtime,
                    !.duration = duration, !.thumbnail_path = thumbnailPath,
                    !.hashedContent = read]
     ELSE r : r \in rows}

\* The row of INSERT INTO files (path, hash, size, mtime, duration,
\* directory, filename, thumbnail_path) VALUES (...)
NewFileRow(id, p, hash, stats, duration, thumbnailPath, read) ==
    [id |-> id, path |-> p, hash |-> hash, size |-> stats.size,
     mtime |-> stats.mtime, duration |-> duration,
     directory |-> <<"dirname", p>>, filename |-> <<"basename", p>>,
     thumbnail_path |-> thumbnailPath, hashedContent |-> read]

\* The call in slot i, in state c, returns record; wrote tells whether it
\* wrote to the store
Return(i, c, wrote, record) ==
    /\ calls' = [calls EXCEPT ![i] = IdleCall]
    /\ fresh' = [fresh EXCEPT ![c.path] = c.clean]
    /\ last' = [op |-> "resolve", path |-> c.path, second |-> c.second,
                fast |-> c.fast, hashed |-> c.hashed, spawned |-> c.spawned,
                wrote |-> wrote, stats |-> c.stats[1], existing |-> c.existing,
                record |-> record, hash |-> c.hash, hadAsset |-> c.hadAsset,
                generated |-> c.generated, extracted |-> c.stage \in ThumbStages,
                ffmpeg |-> c.ffmpeg]

\* The end of the fast path, generateThumbnail having returned thumbnailPath:
\* if (thumbnailPath) { UPDATE ...; existing.thumbnail_path = thumbnailPath }
\* return existing
FinishFast(i, c, thumbnailPath) ==
    /\ files' = IF thumbnailPath # NULL
                THEN UpdateThumbnailPath(files, c.path, thumbnailPath)
                ELSE files
    /\ UNCHANGED nextFileId
    /\ Return(i, c, thumbnailPath # NULL,
              IF thumbnailPath # NULL
              THEN [c.existing[1] EXCEPT !.thumbnail_path = thumbnailPath]
              ELSE c.existing[1])

\* The end of the slow path: UPDATE when the lookup had found a row, else
\* INSERT, which throws when a row of this path is there by now
FinishSlow(i, c, thumbnailPath) ==
    IF c.existing # NULL
    THEN /\ files' = UpdateFileRow(files, c.path, c.hash[1], c.stats[1], c.duration,
                                   thumbnailPath, c.read[1])
         /\ UNCHANGED nextFileId
         /\ Return(i, c, TRUE,
                   NewFileRow(c.existing[1].id, c.path, c.hash[1], c.stats[1],
                              c.duration, thumbnailPath, c.read[1]))
    ELSE IF RowsOf(files, c.path) # {}
    THEN /\ UNCHANGED <<files, nextFileId, fresh>>
         /\ calls' = [calls EXCEPT ![i] = IdleCall]
         /\ last' = [op |-> "throw", path |-> c.path, error |-> "UNIQUE", at |-> "INSERT"]
    ELSE /\ files' = files \cup {NewFileRow(nextFileId, c.path, c.hash[1], c.stats[1],
                                            c.duration, thumbnailPath, c.read[1])}
         /\ nextFileId' = nextFileId + 1
         /\ Return(i, c, TRUE,
                   NewFileRow(nextFileId, c.path, c.hash[1], c.stats[1],
                              c.duration, thumbnailPath, c.read[1]))

\* generateThumbnail has returned thumbnailPath to the call in slot i
Finish(i, c, thumbnailPath) ==
    LET g == [c EXCEPT !.generated = Some(thumbnailPath)]
    IN  IF c.fast THEN FinishFast(i, g, thumbnailPath) ELSE FinishSlow(i, g, thumbnailPath)

\* await this.generateThumbnail(normalizedPath, hash), called with the
\* thumbnails as they are now: it returns at once, or spawns ffmpeg -ss 5
CallGenerateThumbnail(i, c) ==
    LET start == ThumbnailStart(c.path, c.hash[1])
        g == [c EXCEPT !.hadAsset = c.hash[1] \in thumbnails]
    IN  IF start = "spawn"
        THEN /\ calls' = [calls EXCEPT ![i] = [g EXCEPT !.stage = "thumb5",
                                                        !.spawned = TRUE]]
             /\ last' = [op |-> "spawn"]
             /\ UNCHANGED <<files, nextFileId, fresh>>
        ELSE Finish(i, g, IF start = "ref" THEN ThumbnailRef(c.hash[1]) ELSE NULL)

StatOfEmptyFile(p) ==
    IF disk[p] = NULL THEN Some([size |-> 0, mtime |-> 0]) ELSE Some(Stat(disk[p][1]))

\* await stat(normalizedPath): the stats, or NULL when stat rejects because
\* the file is not there
StatOutcome(p) == IF disk[p] = NULL THEN NULL ELSE Some(Stat(disk[p][1]))

\* getOrCreateFileRecord(filePath) up to the stat: the call takes the
\* lowest free slot; when stat rejects, the call rejects with it
BeginCall(i, p) ==
    /\ calls[i] = IdleCall
    /\ IF StatOutcome(p) = NULL
       THEN /\ last' = [op |-> "throw", path |-> p, error |-> "ENOENT", at |-> "stat"]
            /\ UNCHANGED calls
       ELSE /\ calls' = [calls EXCEPT ![i] =
                   [IdleCall EXCEPT !.stage = "stat", !.path = p,
                                    !.stats = StatOutcome(p),
                                    !.second = fresh[p] /\ \A j \in CallIds : calls[j].path # p,
                                    !.clean = TRUE]]
            /\ last' = [op |-> "call", path |-> p]

\* A getOrCreateFileRecord call of a caller outside the scan
getOrCreateFileRecord(i, p) ==
    /\ \A j \in CallIds : j < i => calls[j] # IdleCall
    /\ BeginCall(i, p)
    /\ UNCHANGED <<now, disk, thumbnails, files, nextFileId, fresh, modifications,
                   varsSweep, varsPlaylist, varsHistory, varsDedup>>

\* After the stat: the lookup, and the fast path up to its await, or the
\* start of hashFile
Lookup(i) ==
    LET c == calls[i]
        found == RowsOf(files, c.path)
        existing == IF found = {} THEN NULL ELSE Some(CHOOSE r \in found : TRUE)
    IN  /\ c.stage = "stat"
        /\ IF existing # NULL /\ Unchanged(existing[1], c.stats[1])
           THEN LET f == [c EXCEPT !.existing = existing, !.fast = TRUE,
                                   !.hash = Some(existing[1].hash)]
                IN  IF existing[1].thumbnail_path # NULL
                    THEN UNCHANGED <<files, nextFileId>> /\ Return(i, f, FALSE, existing[1])
                    ELSE CallGenerateThumbnail(i, f)
           ELSE /\ calls' = [calls EXCEPT ![i] = [c EXCEPT !.stage = "hash",
                                                           !.existing = existing]]
                /\ last' = [op |-> "lookup"]
                /\ UNCHANGED <<files, nextFileId, fresh>>
        /\ UNCHANGED <<now, disk, thumbnails, modifications,
                       varsSweep, varsPlaylist, varsHistory, varsDedup>>

\* hashFile returns, or throws when the file is gone (the whole-file read
\* after ffmpeg failed); then the duration is asked for, or the thumbnail
HashDone(i) ==
    LET c == calls[i]
    IN  /\ c.stage = "hash"
        /\ IF disk[c.path] = NULL
           THEN /\ calls' = [calls EXCEPT ![i] = IdleCall]
                /\ last' = [op |-> "throw", path |-> c.path, error |-> "ENOENT",
                            at |-> "hashFile"]
                /\ UNCHANGED <<files, nextFileId, fresh>>
           ELSE \E outcome \in HashOutcomes(c.path) :
              LET hash == HashOf(c.path, disk[c.path][1].content, outcome)
                  h == [c EXCEPT !.hash = Some(hash), !.ffmpeg = outcome,
                                 !.read = Some(disk[c.path][1].content),
                                 !.hashed = TRUE,
                                 !.spawned = Ext(c.path) \in videoExtensions]
              IN  IF Ext(c.path) \in durationExtensions
                  THEN /\ calls' = [calls EXCEPT ![i] = [h EXCEPT !.stage = "duration",
                                                                  !.spawned = TRUE]]
                       /\ last' = [op |-> "hash"]
                       /\ UNCHANGED <<files, nextFileId, fresh>>
                  ELSE CallGenerateThumbnail(i, h)
        /\ UNCHANGED <<now, disk, thumbnails, modifications,
                       varsSweep, varsPlaylist, varsHistory, varsDedup>>

\* getVideoDurationInSeconds returns or throws; then the thumbnail
DurationDone(i) ==
    LET c == calls[i]
    IN  /\ c.stage = "duration"
        /\ \E duration \in (IF disk[c.path] = NULL THEN {NULL}
                            ELSE Durations(disk[c.path][1].content)) :
              IF duration = Thrown
              THEN /\ calls' = [calls EXCEPT ![i] = IdleCall]
                   /\ last' = [op |-> "throw", path |-> c.path, error |-> "duration",
                               at |-> "duration"]
                   /\ UNCHANGED <<files, nextFileId, fresh>>
              ELSE CallGenerateThumbnail(i, [c EXCEPT !.duration = duration])
        /\ UNCHANGED <<now, disk, thumbnails, modifications,
                       varsSweep, varsPlaylist, varsHistory, varsDedup>>

\* What an ffmpeg run leaves behind: the asset of the hash written or not
AfterFfmpeg(hash, created) == IF created THEN thumbnails \cup {hash} ELSE thumbnails

\* ffmpeg -ss 5 has exited: with exit code 0 or not, the asset written or
\* not.  if (proc.exitCode === 0 && existsSync(thumbnailPath)) return the
\* reference; else spawn ffmpeg -ss 2
Thumb5Done(i) ==
    LET c == calls[i]
    IN  /\ c.stage = "thumb5"
        /\ \E exit0 \in BOOLEAN, created \in BOOLEAN :
              /\ thumbnails' = AfterFfmpeg(c.hash[1], created)
              /\ IF exit0 /\ c.hash[1] \in thumbnails'
                 THEN Finish(i, c, ThumbnailRef(c.hash[1]))
                 ELSE /\ calls' = [calls EXCEPT ![i] = [c EXCEPT !.stage = "thumb2"]]
                      /\ last' = [op |-> "spawn"]
                      /\ UNCHANGED <<files, nextFileId, fresh>>
        /\ UNCHANGED <<now, disk, modifications, varsSweep, varsPlaylist, varsHistory, varsDedup>>

\* ffmpeg -ss 2 has exited: if (res.exitCode !== 0 && !existsSync(
\* thumbnailPath)) spawn ffmpeg -ss 1; else return null
Thumb2Done(i) ==
    LET c == calls[i]
    IN  /\ c.stage = "thumb2"
        /\ \E exit0 \in BOOLEAN, created \in BOOLEAN :
              /\ thumbnails' = AfterFfmpeg(c.hash[1], created)
              /\ IF ~exit0 /\ c.hash[1] \notin thumbnails'
                 THEN /\ calls' = [calls EXCEPT ![i] = [c EXCEPT !.stage = "thumb1"]]
                      /\ last' = [op |-> "spawn"]
                      /\ UNCHANGED <<files, nextFileId, fresh>>
                 ELSE Finish(i, c, NULL)
        /\ UNCHANGED <<now, disk, modifications, varsSweep, varsPlaylist, varsHistory, varsDedup>>

\* ffmpeg -ss 1 has exited: return null
Thumb1Done(i) ==
    LET c == calls[i]
    IN  /\ c.stage = "thumb1"
        /\ \E created \in BOOLEAN :
              /\ thumbnails' = AfterFfmpeg(c.hash[1], created)
              /\ Finish(i, c, NULL)
        /\ UNCHANGED <<now, disk, modifications, varsSweep, varsPlaylist, varsHistory, varsDedup>>

\* Something outside the program rewrites a file: new content, size or
\* mtime, in any combination
ModifyFile(p) ==
    /\ modifications < MaxModifications
    /\ disk[p] # NULL
    /\ \E file \in FileStates :
          /\ file # disk[p][1]
          /\ disk' = [disk EXCEPT ![p] = Some(file)]
    /\ modifications' = modifications + 1
    /\ fresh' = [fresh EXCEPT ![p] = FALSE]
    /\ calls' = [i \in CallIds |->
                   IF calls[i].path = p THEN [calls[i] EXCEPT !.clean = FALSE]
                   ELSE calls[i]]
    /\ last' = [op |-> "modify"]
    /\ UNCHANGED <<now, thumbnails, files, nextFileId,
                   varsSweep, varsPlaylist, varsHistory, varsDedup>>

\* The file each path holds at the start, when it holds one
FileAtStart == [size |-> 1, mtimeMs |-> 0, content |-> [video |-> 1, rest |-> 1]]

\* The paths with a file at the start: a video and an image
PathsAtStart == {1, 2}

\* A fresh database and no thumbnails; the files are on disk
InitFiles ==
    /\ now = 0
    /\ last = NoOp
    /\ disk = [p \in Paths |-> IF p \in PathsAtStart THEN Some(FileAtStart) ELSE NULL]
    /\ thumbnails = {}
    /\ files = {}
    /\ nextFileId = 1
    /\ calls = [i \in CallIds |-> IdleCall]
    /\ fresh = [p \in Paths |-> FALSE]
    /\ modifications = 0
    /\ IdleSweep
    /\ IdlePlaylist /\ IdleHistory /\ IdleDedup

\* No call is in flight
NoCall == \A i \in CallIds : calls[i] = IdleCall

\* One caller, which awaits each call before the next, while files change
\* on disk at any moment
NextFiles ==
    \/ \E p \in Paths : NoCall /\ getOrCreateFileRecord(1, p)
    \/ \E i \in CallIds : Lookup(i)
    \/ \E i \in CallIds : HashDone(i)
    \/ \E i \in CallIds : DurationDone(i)
    \/ \E i \in CallIds : Thumb5Done(i)
    \/ \E i \in CallIds : Thumb2Done(i)
    \/ \E i \in CallIds : Thumb1Done(i)
    \/ \E p \in Paths : ModifyFile(p)

SpecFiles == InitFiles /\ [][NextFiles]_vars

\* Two videos of one content, and no image
InitThumbnails ==
    /\ now = 0
    /\ last = NoOp
    /\ disk = [p \in Paths |-> IF Ext(p) \in videoExtensions THEN Some(FileAtStart) ELSE NULL]
    /\ thumbnails = {}
    /\ files = {}
    /\ nextFileId = 1
    /\ calls = [i \in CallIds |-> IdleCall]
    /\ fresh = [p \in Paths |-> FALSE]
    /\ modifications = 0
    /\ IdleSweep
    /\ IdlePlaylist /\ IdleHistory /\ IdleDedup

\* Callers that do not wait for each other (the scan's background loop next
\* to a later scan), over files that stay as they are
NextFilesConcurrent ==
    \/ \E i \in CallIds, p \in Paths : getOrCreateFileRecord(i, p)
    \/ \E i \in CallIds : Lookup(i)
    \/ \E i \in CallIds : HashDone(i)
    \/ \E i \in CallIds : DurationDone(i)
    \/ \E i \in CallIds : Thumb5Done(i)
    \/ \E i \in CallIds : Thumb2Done(i)
    \/ \E i \in CallIds : Thumb1Done(i)

SpecFilesConcurrent == InitFiles /\ [][NextFilesConcurrent]_vars

\* Callers of one video that do not wait for each other, while the video
\* is rewritten with the content and the size it had (its mtime changes)
NextRace ==
    \/ \E i \in CallIds : getOrCreateFileRecord(i, 1)
    \/ \E i \in CallIds : Lookup(i)
    \/ \E i \in CallIds : HashDone(i)
    \/ \E i \in CallIds : DurationDone(i)
    \/ \E i \in CallIds : Thumb5Done(i)
    \/ \E i \in CallIds : Thumb2Done(i)
    \/ \E i \in CallIds : Thumb1Done(i)
    \/ /\ ModifyFile(1)
       /\ disk'[1][1].content = disk[1][1].content
       /\ disk'[1][1].size = disk[1][1].size

SpecRace == InitFiles /\ [][NextRace]_vars

\* The same callers over two videos of one content
SpecThumbnails == InitThumbnails /\ [][NextFilesConcurrent]_vars

(***************************************************************************)
(* Files that vanish: getCachedRecord and cleanupMissingFiles              *)
(***************************************************************************)
\* Something outside the program removes a file
DeleteFile(p) ==
    /\ disk[p] # NULL
    /\ disk' = [disk EXCEPT ![p] = NULL]
    /\ fresh' = [fresh EXCEPT ![p] = FALSE]
    /\ calls' = [i \in CallIds |->
                   IF calls[i].path = p THEN [calls[i] EXCEPT !.clean = FALSE]
                   ELSE calls[i]]
    /\ last' = [op |-> "delete", path |-> p]
    /\ UNCHANGED <<now, thumbnails, files, nextFileId, modifications,
                   varsSweep, varsPlaylist, varsHistory, varsDedup>>

CachedRecordIfOnDisk(rows, p) ==
    IF RowsOf(rows, p) = {} \/ disk[p] = NULL THEN NULL
    ELSE Some(CHOOSE r \in RowsOf(rows, p) : TRUE)

\* query.get(normalizedPath) || null over SELECT * FROM files WHERE path = ?
CachedRecord(rows, p) ==
    IF RowsOf(rows, p) = {} THEN NULL ELSE Some(CHOOSE r \in RowsOf(rows, p) : TRUE)

\* getCachedRecord(filePath): synchronous, one query
getCachedRecord(p) ==
    /\ last' = [op |-> "cached", path |-> p, record |-> CachedRecord(files, p)]
    /\ UNCHANGED <<now, varsFiles, varsPlaylist, varsHistory, varsDedup>>

\* The row the loop of cleanupMissingFiles stats next: SELECT * FROM files
\* gives the rows in the order of their id
NextToStat(pending) == CHOOSE r \in pending : \A q \in pending : r.id <= q.id

DeleteNothing(rows, ids) == rows

\* DELETE FROM files WHERE id IN (...)
DeleteByIds(rows, ids) == {r \in rows : r.id \notin ids}

\* cleanupMissingFiles returns deleted.length, after the DELETE when there
\* is something to delete
SweepReturn(c) ==
    /\ files' = IF c.deleted # {} THEN DeleteByIds(files, c.deleted) ELSE files
    /\ sweep' = NULL
    /\ last' = [op |-> "cleanup", returned |-> Cardinality(c.deleted),
                snapshot |-> c.snapshot, missingAtStart |-> c.missingAtStart,
                before |-> files, after |-> files']

\* cleanupMissingFiles up to its first await: the SELECT, and the first
\* stat issued; with an empty table it returns 0 at once.  missingAtStart
\* is no part of the program: the paths without a file at this moment
cleanupMissingFilesBegin ==
    /\ sweep = NULL
    /\ LET c == [snapshot |-> files, pending |-> files, deleted |-> {},
                 missingAtStart |-> {p \in Paths : disk[p] = NULL}]
       IN  IF files = {}
           THEN SweepReturn(c)
           ELSE /\ sweep' = Some(c)
                /\ last' = [op |-> "sweep"]
                /\ UNCHANGED files
    /\ UNCHANGED <<now, disk, thumbnails, nextFileId, calls, fresh, modifications,
                   scan, loops, listing,
                   varsPlaylist, varsHistory, varsDedup>>

\* An awaited stat(file.path) settles: a rejection puts the row's id on
\* the list; then the next stat is issued, or the loop is over
cleanupMissingFilesStat ==
    /\ sweep # NULL
    /\ LET c == sweep[1]
           file == NextToStat(c.pending)
           d == [c EXCEPT !.pending = @ \ {file},
                          !.deleted = IF disk[file.path] = NULL
                                      THEN @ \cup {file.id} ELSE @]
       IN  IF d.pending = {}
           THEN SweepReturn(d)
           ELSE /\ sweep' = Some(d)
                /\ last' = [op |-> "sweep"]
                /\ UNCHANGED files
    /\ UNCHANGED <<now, disk, thumbnails, nextFileId, calls, fresh, modifications,
                   scan, loops, listing,
                   varsPlaylist, varsHistory, varsDedup>>

\* One caller of getOrCreateFileRecord at a time, a sweep next to it, and
\* files that vanish
NextSweep ==
    \/ \E p \in Paths : NoCall /\ getOrCreateFileRecord(1, p)
    \/ \E i \in CallIds : Lookup(i)
    \/ \E i \in CallIds : HashDone(i)
    \/ \E i \in CallIds : DurationDone(i)
    \/ \E i \in CallIds : Thumb5Done(i)
    \/ \E i \in CallIds : Thumb2Done(i)
    \/ \E i \in CallIds : Thumb1Done(i)
    \/ \E p \in Paths : DeleteFile(p)
    \/ \E p \in Paths : getCachedRecord(p)
    \/ cleanupMissingFilesBegin
    \/ cleanupMissingFilesStat

SpecSweep == InitFiles /\ [][NextSweep]_vars

(***************************************************************************)
(* deduplicateFiles                                                        *)
(***************************************************************************)
Hashes == 1..NumHashes
\* A FileRecord, as far as deduplicateFiles reads it: the hash; the path
\* tells records of one hash apart
FileRecords == [path : 1..MaxLen, hash : Hashes]

\* The lists deduplicateFiles is given: records of distinct paths (path is
\* UNIQUE in the files table), in any order of hashes
InputLists ==
    UNION {{[i \in 1..n |-> [path |-> i, hash |-> hs[i]]] : hs \in [1..n -> Hashes]} :
           n \in 0..MaxLen}

\* files.filter(file => { if (seen.has(file.hash)) return false;
\*                        seen.add(file.hash); return true; })
RECURSIVE filterSeen(_, _)
filterSeen(records, seen) ==
    IF records = << >> THEN << >>
    ELSE LET file == Head(records)
         IN  IF file.hash \in seen
             THEN filterSeen(Tail(records), seen)
             ELSE <<file>> \o filterSeen(Tail(records), seen \cup {file.hash})

Reverse(seq) == [i \in 1..Len(seq) |-> seq[Len(seq) + 1 - i]]

deduplicateFilesKeepLast(records) == Reverse(filterSeen(Reverse(records), {}))

\* const seen = new Set<string>(); return files.filter(...)
deduplicateFiles(records) == filterSeen(records, {})

\* A caller passes a list and gets the filtered list
Deduplicate ==
    /\ last.op # "dedup"
    /\ dedupOut' = deduplicateFiles(dedupIn)
    /\ last' = [op |-> "dedup"]
    /\ UNCHANGED <<now, dedupIn, varsPlaylist, varsHistory, varsFiles>>

\* The caller passes the result on as the next input
Refeed ==
    /\ last.op = "dedup"
    /\ dedupIn' = dedupOut
    /\ dedupOut' = << >>
    /\ last' = [op |-> "refeed"]
    /\ UNCHANGED <<now, varsPlaylist, varsHistory, varsFiles>>

InitDedup ==
    /\ now = 0
    /\ last = NoOp
    /\ dedupIn \in InputLists
    /\ dedupOut = << >>
    /\ IdlePlaylist /\ IdleHistory /\ IdleFiles

NextDedup == Deduplicate \/ Refeed

SpecDedup == InitDedup /\ [][NextDedup]_vars

(***************************************************************************)
(* getMediaFromDirectory (app/api.server.ts): the scan of the directory    *)
(* that holds the paths, and its background loop                           *)
(***************************************************************************)
supportedExtensions ==
    {".mp4", ".webm", ".mov", ".avi", ".mkv", ".jpg", ".jpeg", ".png", ".gif", ".webp"}

\* hash: "" of the minimal record
EmptyHash == << >>

\* The minimal record pushed for a file that getCachedRecord does not know
Placeholder(p, stats) ==
    [path |-> p, hash |-> EmptyHash, size |-> stats.size, mtime |-> stats.mtime,
     duration |-> NULL, directory |-> <<"dirname", p>>,
     filename |-> <<"basename", p>>, thumbnail_path |-> NULL]

ScanRecordHashed(rows, p) ==
    IF CachedRecord(rows, p) # NULL THEN CachedRecord(rows, p)[1]
    ELSE [Placeholder(p, Stat(disk[p][1])) EXCEPT
             !.hash = FileHash(disk[p][1].content)]

\* cached ? cached : the minimal record, for a file that stat has found
ScanRecord(rows, p) ==
    IF CachedRecord(rows, p) # NULL THEN CachedRecord(rows, p)[1]
    ELSE Placeholder(p, Stat(disk[p][1]))

\* The orders readdir may list these files in
ReaddirOrders(present) ==
    {l \in [1..Cardinality(present) -> present] :
        \A a, b \in 1..Cardinality(present) : a # b => l[a] # l[b]}

\* processedRecords.sort((a, b) => a.filename.localeCompare(b.filename)):
\* the file names are in the order of the paths
SortByFilename(records) ==
    LET n == Len(records)
    IN  CHOOSE l \in [1..n -> {records[k] : k \in 1..n}] :
           /\ \A a, b \in 1..n : a < b => l[a].path < l[b].path
           /\ \A k \in 1..n : \E a \in 1..n : l[a] = records[k]

\* `/proxy/local-media?path=${encodeURIComponent(file.path)}`
MediaUrl(p) == <<"/proxy/local-media?path=", p>>

\* The call slots no background loop holds and no call is in
FreeSlots == {i \in CallIds : calls[i] = IdleCall /\ \A l \in loops : l.slot # i}

\* The end of getMediaFromDirectory, with no await in it: the background
\* loop is started over filesToProcess and not awaited, the records are
\* deduplicated if asked for, sorted by file name, and returned as URLs
ScanFinish(c) ==
    LET processedRecords == IF c.removeDuplicates
                            THEN deduplicateFiles(c.fileRecords) ELSE c.fileRecords
        sorted == SortByFilename(processedRecords)
        slot == CHOOSE i \in FreeSlots : \A j \in FreeSlots : i <= j
    IN  /\ scan' = NULL
        /\ loops' = IF c.filesToProcess = << >> THEN loops
                    ELSE loops \cup {[slot |-> slot, filesToProcess |-> c.filesToProcess]}
        /\ last' = [op |-> "scan", removeDuplicates |-> c.removeDuplicates,
                    fileRecords |-> c.fileRecords,
                    filesToProcess |-> c.filesToProcess,
                    result |-> [k \in 1..Len(sorted) |-> MediaUrl(sorted[k].path)]]

\* getMediaFromDirectory(directoryPath, -1, "none", removeDuplicates) up
\* to await fs.readdir; the scans are issued one after the other
getMediaFromDirectory(removeDuplicates) ==
    /\ scan = NULL
    /\ FreeSlots # {}
    /\ scan' = Some([stage |-> "readdir", removeDuplicates |-> removeDuplicates,
                     listing |-> << >>, fileRecords |-> << >>,
                     filesToProcess |-> << >>])
    /\ last' = [op |-> "readdir"]
    /\ UNCHANGED <<now, disk, thumbnails, files, nextFileId, calls, fresh,
                   modifications, sweep, loops, listing,
                   varsPlaylist, varsHistory, varsDedup>>

\* readdir resolves with the files that are there, in some order; the
\* loop passes over the files without a supported extension and issues
\* the stat of the first that has one
ReaddirDone ==
    /\ scan # NULL /\ scan[1].stage = "readdir"
    /\ \E l \in ReaddirOrders({p \in Paths : disk[p] # NULL
                                            /\ Ext(p) \in supportedExtensions}) :
          LET c == [scan[1] EXCEPT !.stage = "stat", !.listing = l]
          IN  IF l = << >>
              THEN ScanFinish(c)
              ELSE scan' = Some(c) /\ last' = [op |-> "listed"] /\ UNCHANGED loops
    /\ UNCHANGED <<now, disk, thumbnails, files, nextFileId, calls, fresh,
                   modifications, sweep, listing,
                   varsPlaylist, varsHistory, varsDedup>>

\* await fs.stat(filePath) settles for the next file of the listing: a
\* rejection is caught and the file passed over; else the record of the
\* cache or the minimal record is pushed, and the file queued if uncached
ScanStatDone ==
    /\ scan # NULL /\ scan[1].stage = "stat"
    /\ LET c == scan[1]
           p == Head(c.listing)
           d == IF disk[p] = NULL
                THEN [c EXCEPT !.listing = Tail(@)]
                ELSE [c EXCEPT !.listing = Tail(@),
                               !.fileRecords = Append(@, ScanRecord(files, p)),
                               !.filesToProcess =
                                   IF CachedRecord(files, p) = NULL
                                   THEN Append(@, p) ELSE @]
       IN  IF d.listing = << >>
           THEN ScanFinish(d)
           ELSE scan' = Some(d) /\ last' = [op |-> "statted"] /\ UNCHANGED loops
    /\ UNCHANGED <<now, disk, thumbnails, files, nextFileId, calls, fresh,
                   modifications, sweep, listing,
                   varsPlaylist, varsHistory, varsDedup>>

\* A loop without the try/catch: a call that rejects at once ends the loop
BackgroundCallNoCatch(l) ==
    /\ BeginCall(l.slot, Head(l.filesToProcess))
    /\ loops' = (loops \ {l}) \cup
                   IF Tail(l.filesToProcess) = << >> \/ StatOutcome(Head(l.filesToProcess)) = NULL
                   THEN {}
                   ELSE {[l EXCEPT !.filesToProcess = Tail(@)]}
    /\ UNCHANGED <<now, disk, thumbnails, files, nextFileId, fresh,
                   modifications, sweep, scan, listing,
                   varsPlaylist, varsHistory, varsDedup>>

\* The background loop: for (const filePath of filesToProcess) { try {
\* await cache.getOrCreateFileRecord(filePath) } catch { } }: the next call
\* of a loop begins when the one before has settled
BackgroundCall(l) ==
    /\ BeginCall(l.slot, Head(l.filesToProcess))
    /\ loops' = (loops \ {l}) \cup
                   IF Tail(l.filesToProcess) = << >> THEN {}
                   ELSE {[l EXCEPT !.filesToProcess = Tail(@)]}
    /\ UNCHANGED <<now, disk, thumbnails, files, nextFileId, fresh,
                   modifications, sweep, scan, listing,
                   varsPlaylist, varsHistory, varsDedup>>

\* No background loop is under way
NoBackground == NoCall /\ loops = {}

\* Scans of the directory, each begun when the background loop of the one
\* before is through, and files that vanish
NextScan ==
    \/ \E removeDuplicates \in BOOLEAN :
          NoBackground /\ getMediaFromDirectory(removeDuplicates)
    \/ ReaddirDone
    \/ ScanStatDone
    \/ \E l \in loops : BackgroundCall(l)
    \/ \E i \in CallIds : Lookup(i)
    \/ \E i \in CallIds : HashDone(i)
    \/ \E i \in CallIds : DurationDone(i)
    \/ \E i \in CallIds : Thumb5Done(i)
    \/ \E i \in CallIds : Thumb2Done(i)
    \/ \E i \in CallIds : Thumb1Done(i)
    \/ \E p \in Paths : DeleteFile(p)

SpecScan == InitFiles /\ [][NextScan]_vars

\* Scans of the directory issued while the background loops of earlier
\* scans are still running
NextScans ==
    \/ \E removeDuplicates \in BOOLEAN : getMediaFromDirectory(removeDuplicates)
    \/ ReaddirDone
    \/ ScanStatDone
    \/ \E l \in loops : BackgroundCall(l)
    \/ \E i \in CallIds : Lookup(i)
    \/ \E i \in CallIds : HashDone(i)
    \/ \E i \in CallIds : DurationDone(i)
    \/ \E i \in CallIds : Thumb5Done(i)
    \/ \E i \in CallIds : Thumb2Done(i)
    \/ \E i \in CallIds : Thumb1Done(i)

SpecScans == InitFiles /\ [][NextScans]_vars

(***************************************************************************)
(* An ffmpeg process that never exits                                      *)
(***************************************************************************)
\* The ffmpeg that call i awaits (await proc.exited of hashFile for a
\* video, of an attempt of generateThumbnail) never exits: the await never
\* settles, and no code of the call runs again
Hang(i) ==
    LET c == calls[i]
    IN  /\ \/ c.stage \in ThumbStages
           \/ c.stage = "hash" /\ Ext(c.path) \in videoExtensions
        /\ calls' = [calls EXCEPT ![i] = [c EXCEPT !.stage = "hung"]]
        /\ last' = [op |-> "hang", path |-> c.path]
        /\ UNCHANGED <<now, disk, thumbnails, files, nextFileId, fresh, modifications,
                       varsSweep, varsPlaylist, varsHistory, varsDedup>>

\* The code of call i that runs when the await it is at settles
CallStep(i) ==
    \/ Lookup(i)
    \/ HashDone(i)
    \/ DurationDone(i)
    \/ Thumb5Done(i)
    \/ Thumb2Done(i)
    \/ Thumb1Done(i)

\* Scans one after the other, with an ffmpeg that may hang
NextHang ==
    \/ \E removeDuplicates \in BOOLEAN :
          NoBackground /\ getMediaFromDirectory(removeDuplicates)
    \/ ReaddirDone
    \/ ScanStatDone
    \/ \E l \in loops : BackgroundCall(l)
    \/ \E i \in CallIds : CallStep(i)
    \/ \E i \in CallIds : Hang(i)
    \/ \E p \in Paths : DeleteFile(p)

\* The event loop runs the continuation of every await that has settled:
\* a call at an await that settles goes on, and a loop whose call has
\* settled begins its next call. An ffmpeg that hangs, a scan that is
\* asked for and a file that vanishes are not owed.
FairIndexing ==
    /\ \A i \in CallIds : WF_vars(CallStep(i))
    /\ WF_vars(\E l \in loops : BackgroundCall(l))

SpecHang == InitFiles /\ [][NextHang]_vars /\ FairIndexing

(***************************************************************************)
(* Files that change between scans                                         *)
(***************************************************************************)
\* Scans one after the other and lookups, over files that are rewritten
\* while no scan and no background indexing is under way
NextStale ==
    \/ \E removeDuplicates \in BOOLEAN :
          NoBackground /\ getMediaFromDirectory(removeDuplicates)
    \/ ReaddirDone
    \/ ScanStatDone
    \/ \E l \in loops : BackgroundCall(l)
    \/ \E i \in CallIds : CallStep(i)
    \/ \E p \in Paths : scan = NULL /\ NoBackground /\ ModifyFile(p)
    \/ \E p \in Paths : getCachedRecord(p)

SpecStale == InitFiles /\ [][NextStale]_vars /\ FairIndexing

(***************************************************************************)
(* The background loop under fair scheduling                               *)
(***************************************************************************)
\* Scans one after the other with their background loops, over files that
\* vanish; every tool invocation ends
SpecWarm == InitFiles /\ [][NextScan]_vars /\ FairIndexing

(***************************************************************************)
(* The list-directories action (app/routes/api.list-directories.tsx) with  *)
(* includeFiles = true, on the directory that holds the paths              *)
(***************************************************************************)
\* const supportedExtensions = [".mp4", ".webm", ".mov", ".avi", ".mkv"]
listedExtensions == {".mp4", ".webm", ".mov", ".avi", ".mkv"}

\* The action up to await fs.readdir(normalizedPath, { withFileTypes: true })
listDirectories ==
    /\ listing = NULL
    /\ NoCall
    /\ listing' = Some([stage |-> "readdir", entries |-> << >>, awaited |-> << >>])
    /\ last' = [op |-> "listDirectories"]
    /\ UNCHANGED <<now, disk, thumbnails, files, nextFileId, calls, fresh,
                   modifications, sweep, scan, loops, varsPlaylist, varsHistory, varsDedup>>

\* The next entry of the loop: await cache.getOrCreateFileRecord(filePath)
\* inside try/catch; after the last entry the response is returned
ListStep(c) ==
    IF c.entries = << >>
    THEN /\ listing' = NULL
         /\ last' = [op |-> "response", awaited |-> c.awaited]
         /\ UNCHANGED calls
    ELSE /\ BeginCall(1, Head(c.entries))
         /\ listing' = Some([c EXCEPT !.stage = "files", !.entries = Tail(@),
                                      !.awaited = Append(@, Head(c.entries))])

\* readdir resolves with the entries that are there, in some order; the
\* loop passes over the entries that are no file with a listed extension
ListReaddirDone ==
    /\ listing # NULL /\ listing[1].stage = "readdir"
    /\ \E l \in ReaddirOrders({p \in Paths : disk[p] # NULL /\ Ext(p) \in listedExtensions}) :
          ListStep([listing[1] EXCEPT !.entries = l])
    /\ UNCHANGED <<now, disk, thumbnails, files, nextFileId, fresh,
                   modifications, sweep, scan, loops, varsPlaylist, varsHistory, varsDedup>>

\* The call the loop awaits has settled: the record is pushed, or the
\* rejection caught, and the loop goes on
ListCallSettled ==
    /\ listing # NULL /\ listing[1].stage = "files"
    /\ NoCall
    /\ ListStep(listing[1])
    /\ UNCHANGED <<now, disk, thumbnails, files, nextFileId, fresh,
                   modifications, sweep, scan, loops, varsPlaylist, varsHistory, varsDedup>>

\* Listings one after the other, over files that are rewritten or vanish
NextListing ==
    \/ listDirectories
    \/ ListReaddirDone
    \/ ListCallSettled
    \/ \E i \in CallIds : CallStep(i)
    \/ \E p \in Paths : ModifyFile(p)
    \/ \E p \in Paths : DeleteFile(p)

SpecListing == InitFiles /\ [][NextListing]_vars

(***************************************************************************)
(* Properties of the playlist operations                                   *)
(***************************************************************************)
IndexSet(items, pid) == {it.order_index : it \in ItemsOf(items, pid)}
Count(items, pid) == Cardinality(ItemsOf(items, pid))
Contiguous(items, pid) == IndexSet(items, pid) = 0..(Count(items, pid) - 1)
UrlsOf(items, pid) == {it.media_url : it \in ItemsOf(items, pid)}
IndexOf(items, pid, url) == (CHOOSE it \in ItemQuery(items, pid, url) : TRUE).order_index
UniqueUrls(items) ==
    \A a, b \in items : a.playlist_id = b.playlist_id /\ a.media_url = b.media_url => a = b

\* getPlaylistItems: ... ORDER BY order_index ASC, as the URLs in order; rows
\* with equal order_index come in an order SQL leaves open, so this is the
\* set of the possible results
Listings(items, pid) ==
    LET n == Count(items, pid)
    IN  {s \in [1..n -> UrlsOf(items, pid)] :
            /\ \A a, b \in 1..n : a # b => s[a] # s[b]
            /\ \A a, b \in 1..n :
                  a < b => IndexOf(items, pid, s[a]) <= IndexOf(items, pid, s[b])}

\* seq with url taken out and put back at 0-based position j
MoveTo(seq, url, j) ==
    LET IsOther(u) == u # url
        rest == SelectSeq(seq, IsOther)
    IN  SubSeq(rest, 1, j) \o <<url>> \o SubSeq(rest, j + 1, Len(rest))

\* C1: after each completed addToPlaylist, removeFromPlaylist or
\* reorderPlaylistItem call, the order_index values of every playlist are
\* exactly 0..N-1, N its number of items.
C1_ContiguousAfterEachCall ==
    last.op \in {"add", "remove", "reorder"} =>
        \A pid \in PlaylistIds : Contiguous(playlist_items, pid)

\* What C4 says of a move of url from index i to index j
ReorderPost(pid, url, j) ==
    LET i == IndexOf(playlist_items, pid, url)
        Moved(it) ==
            IF it.playlist_id # pid THEN it
            ELSE IF it.media_url = url THEN [it EXCEPT !.order_index = j]
            ELSE IF i < j /\ it.order_index > i /\ it.order_index <= j
                 THEN [it EXCEPT !.order_index = @ - 1]
            ELSE IF i > j /\ it.order_index >= j /\ it.order_index < i
                 THEN [it EXCEPT !.order_index = @ + 1]
            ELSE it
    IN  IF i = j THEN playlist_items' = playlist_items
        ELSE /\ playlist_items' = {Moved(it) : it \in playlist_items}
             /\ Listings(playlist_items', pid) =
                   {MoveTo(l, url, j) : l \in Listings(playlist_items, pid)}

\* C4: reorderPlaylistItem(playlist, url, j) with 0 <= j <= N-1, for an item
\* at index i: the items in (i, j] move down by one if i < j, the items in
\* [j, i) move up by one if i > j, the moved item ends at j, all others keep
\* their index, and the resulting order is the old order with the item
\* taken out and put back at position j; nothing changes if i = j.
C4_ReorderMovesItem ==
    [][\A pid \in PlaylistIds, url \in Urls, j \in NewIndexes :
          (/\ reorderPlaylistItem(pid, url, j)
           /\ ItemQuery(playlist_items, pid, url) # {}
           /\ j \in 0..(Count(playlist_items, pid) - 1))
          => ReorderPost(pid, url, j)]_vars

\* C7: addToPlaylist of a URL that is already in the playlist leaves
\* playlist_items as it was, and in every reachable state a media_url is in
\* a playlist at most once.
C7_AddIdempotent ==
    [][/\ UniqueUrls(playlist_items')
       /\ \A c \in addCalls :
             (/\ addToPlaylistFinish(c)
              /\ ItemQuery(playlist_items, c.playlist_id, c.media_url) # {})
             => playlist_items' = playlist_items]_vars

\* An addToPlaylist has just found its URL in the playlist
C7_Witness == last.op = "add" /\ last.ignored /\ playlist_items # {}

\* What C8 says of the removal of url, which is at index i
RemovePost(pid, url) ==
    LET i == IndexOf(playlist_items, pid, url)
        rest == {it \in ItemsOf(playlist_items, pid) : it.media_url # url}
        Closed(it) == [it EXCEPT !.order_index = IF @ > i THEN @ - 1 ELSE @]
    IN  /\ ItemQuery(playlist_items', pid, url) = {}
        /\ Cardinality(playlist_items') = Cardinality(playlist_items) - 1
        /\ \A it \in rest : Closed(it) \in playlist_items'
        /\ \A it \in playlist_items : it.playlist_id # pid => it \in playlist_items'
        /\ \A a, b \in rest :
              a.order_index < b.order_index =>
                 IndexOf(playlist_items', pid, a.media_url)
                    <= IndexOf(playlist_items', pid, b.media_url)

KeyRows(rows, type, value) == {r \in rows : r.type = type /\ r.value = value}

\* What C2 says of a call that records the key (type, value): one row for
\* the key afterwards, counted up from the row that was there, or 1
UpsertPost(type, value) ==
    LET before == KeyRows(history, type, value)
        after == KeyRows(history', type, value)
    IN  /\ Cardinality(after) = 1
        /\ \A r \in after :
              /\ r.last_used = now
              /\ \A b \in before : r.use_count = b.use_count + 1
              /\ before = {} => r.use_count = 1

\* C2: recording the same directory n times gives exactly one 'directory'
\* row for the path, with use_count = n: the first call inserts the row with
\* use_count 1, each repeat adds one to use_count and refreshes last_used and
\* inserts nothing.  The same for addBunkrToHistory and an album URL.
C2_UpsertCountsRepeats ==
    [][/\ \A p \in DirectoryPaths :
             addDirectoryToHistory(p) => UpsertPost("directory", Resolve(p))
       /\ \A a \in Values :
             addBunkrToHistory(a) => UpsertPost("bunkr", <<"url", a>>)]_vars

\* C9: no two rows of history have the same (type, value, platform,
\* service), an absent platform or service being equal to itself.
C9_HistoryKeyUnique ==
    \A r, q \in history :
        (/\ r.type = q.type /\ r.value = q.value
         /\ r.platform = q.platform /\ r.service = q.service) => r = q

\* The listing functions without filter, by type
getRecent(type, limit) ==
    IF type = "directory" THEN getRecentDirectories(limit)
    ELSE IF type = "user" THEN getRecentUsers(limit, NULL, NULL)
    ELSE IF type = "redgifs" THEN getRecentRedgifs(limit)
    ELSE getRecentBunkr(limit)

\* C10: a listing holds only entries of its type, at most limit of them,
\* in descending order of last_used; and right after a key was recorded a
\* listing of its type has that key's entry first.
C10_ListingByRecency ==
    \A type \in Types, limit \in Limits : \A s \in getRecent(type, limit) :
        /\ Len(s) <= limit
        /\ \A a \in 1..Len(s) : s[a].type = type
        /\ \A a, b \in 1..Len(s) : a < b => s[a].last_used >= s[b].last_used
        /\ (last.op = "record" /\ last.type = type /\ limit >= 1) =>
              /\ Len(s) >= 1
              /\ s[1].value = last.value
              /\ s[1].platform = last.platform
              /\ s[1].service = last.service

(***************************************************************************)
(* Properties of deduplicateFiles                                          *)
(***************************************************************************)
HashesOf(seq) == [i \in 1..Len(seq) |-> seq[i].hash]

\* The positions of the input whose hash no earlier position carries
FirstPositions(seq) ==
    {i \in 1..Len(seq) : \A j \in 1..(i - 1) : seq[j].hash # seq[i].hash}

\* The k-th of a set of positions, in ascending order
NthOf(positions, k) ==
    CHOOSE i \in positions : Cardinality({j \in positions : j <= i}) = k

\* C5: the output of deduplicateFiles is the subsequence of the input made
\* of the first record of each hash, in input order; its hashes are pairwise
\* distinct, every input hash is among them, and filtering the output again
\* gives the output.
C5_DedupFirstOccurrence ==
    last.op = "dedup" =>
        LET keep == FirstPositions(dedupIn)
        IN  /\ Len(dedupOut) = Cardinality(keep)
            /\ \A k \in 1..Len(dedupOut) : dedupOut[k] = dedupIn[NthOf(keep, k)]
            /\ \A a, b \in 1..Len(dedupOut) :
                  a # b => dedupOut[a].hash # dedupOut[b].hash
            /\ {dedupIn[i].hash : i \in 1..Len(dedupIn)}
                  = {dedupOut[k].hash : k \in 1..Len(dedupOut)}
            /\ deduplicateFiles(dedupOut) = dedupOut

\* hashes [a, b, a, c, b] filtered to [a, b, c]
C5_Witness ==
    /\ last.op = "dedup"
    /\ HashesOf(dedupIn) = <<1, 2, 1, 3, 2>>
    /\ HashesOf(dedupOut) = <<1, 2, 3>>

(***************************************************************************)
(* Properties of getOrCreateFileRecord                                     *)
(***************************************************************************)
\* The call that returned last was a second call: it began after a call on
\* the same path had returned, the file not modified since that call's stat
SecondCallReturned == last.op = "resolve" /\ last.second

\* C3: of two calls with no modification of the file between them, the
\* second finds the stored (size, mtime) equal to the stat values and is a
\* pure read: no hashing, no process spawn, no write to the store; it
\* returns the stored record.
C3_SecondCallPureRead ==
    SecondCallReturned =>
        /\ last.fast
        /\ ~last.hashed /\ ~last.spawned /\ ~last.wrote
        /\ last.record = last.existing[1]

\* C3, amended: the second call finds the stored (size, mtime) equal to
\* the stat values and never hashes.  It is a pure read returning the stored
\* record when the stored thumbnail_path is set or the file is no video.
\* For a video stored with thumbnail_path null it runs generateThumbnail
\* again, which may spawn ffmpeg, and the only thing it may write is the
\* thumbnail reference of the stored hash into thumbnail_path; it returns
\* the record as stored after that.
C3_SecondCallNoHash ==
    SecondCallReturned =>
        /\ last.fast
        /\ ~last.hashed
        /\ last.existing # NULL
        /\ LET e == last.existing[1]
           IN  /\ (e.thumbnail_path # NULL \/ Ext(last.path) \notin videoExtensions) =>
                     ~last.spawned /\ ~last.wrote /\ last.record = e
               /\ last.record \in {e, [e EXCEPT !.thumbnail_path = ThumbnailRef(e.hash)]}
               /\ last.wrote <=> last.record # e
               /\ RowsOf(files, last.path) = {last.record}

\* A second call on a video whose thumbnail is stored: a pure read
C3_Witness ==
    /\ SecondCallReturned
    /\ Ext(last.path) \in videoExtensions
    /\ last.existing[1].thumbnail_path # NULL
    /\ ~last.spawned /\ ~last.wrote

\* The call that returned last had found a row whose (size, mtime) differ
\* from what its stat gave
ChangedFileResolved ==
    /\ last.op = "resolve"
    /\ last.existing # NULL
    /\ \/ last.existing[1].size # last.stats.size
       \/ last.existing[1].mtime # last.stats.mtime

\* What C6 says of the row, but for the difference of the hashes
UpdatedInPlace ==
    LET e == last.existing[1]
        r == last.record
    IN  /\ last.hashed
        /\ RowsOf(files, last.path) = {r}
        /\ r.id = e.id /\ r.directory = e.directory /\ r.filename = e.filename
        /\ r.size = last.stats.size /\ r.mtime = last.stats.mtime
        /\ r.hash \in hashFile(last.path, r.hashedContent)

\* C6: when a file's (size, mtime) differ from the stored tuple, the next
\* call rehashes and updates the row in place: one row for the path, same
\* id, directory and filename, (size, mtime) as stat gave them in the call,
\* the hash that of the content read, and different from the prior hash when
\* the content differs from the content hashed before.
C6_RehashOnChange ==
    ChangedFileResolved =>
        /\ UpdatedInPlace
        /\ last.record.hashedContent # last.existing[1].hashedContent =>
              last.record.hash # last.existing[1].hash

\* C6, amended: as C6, but the hash is sure to differ from the prior hash
\* only when the part of the content that is hashed differs: for a video
\* extension the video stream, for any other file the whole content.  A
\* video whose container or metadata alone changed may keep its hash.
C6_RehashOnChangeOfHashedPart ==
    ChangedFileResolved =>
        /\ UpdatedInPlace
        /\ LET e == last.existing[1]
               r == last.record
           IN  IF Ext(last.path) \in videoExtensions
               THEN r.hashedContent.video # e.hashedContent.video => r.hash # e.hash
               ELSE r.hashedContent # e.hashedContent => r.hash # e.hash

\* A changed video was resolved again and its hash changed with its stream
C6_Witness ==
    /\ ChangedFileResolved
    /\ Ext(last.path) \in videoExtensions
    /\ last.record.hashedContent.video # last.existing[1].hashedContent.video
    /\ last.record.hash # last.existing[1].hash

(***************************************************************************)
(* Properties of generateThumbnail                                         *)
(***************************************************************************)
\* The call of getOrCreateFileRecord that returned last had called
\* generateThumbnail for a video
ThumbnailGenerated ==
    /\ last.op = "resolve"
    /\ last.generated # NULL
    /\ Ext(last.path) \in videoExtensions

ProbedCallEnds(i) ==
    /\ calls[i].stage \in {"duration"} \cup ThumbStages
    /\ ~calls[i].fast
    /\ Ext(calls[i].path) \in durationExtensions
    /\ calls'[i] = IdleCall

\* C12: when the duration probe of a video fails, getOrCreateFileRecord
\* does not throw: it returns a record of the path with the hash of the
\* content it read and duration null, and that record is the stored row.
C12_DurationFailureTolerated ==
    [][\A i \in CallIds :
          ProbedCallEnds(i) =>
              /\ last'.op = "resolve"
              /\ last'.record.duration = NULL =>
                    /\ last'.hashed
                    /\ last'.record.path = calls[i].path
                    /\ last'.record.hash \in hashFile(calls[i].path,
                                                      last'.record.hashedContent)
                    /\ RowsOf(files', calls[i].path) = {last'.record}]_vars

\* A video was indexed with its duration probe failed
C12_Witness ==
    /\ last.op = "resolve"
    /\ last.hashed
    /\ Ext(last.path) \in durationExtensions
    /\ last.record.duration = NULL
    /\ last.record \in files

\* A call of getOrCreateFileRecord on path p began in this step
CallBegins(p) ==
    /\ last'.op = "call" \/ (last'.op = "throw" /\ last'.at = "stat")
    /\ last'.path = p

\* C13: a getOrCreateFileRecord call on a path without a file fails with
\* the not-found error of stat and changes no row: none is created, and a
\* row stored for the path stays as it is.
C13_StatFailureLeavesStore ==
    [][\A p \in Paths :
          CallBegins(p) /\ disk[p] = NULL =>
              /\ last'.op = "throw" /\ last'.error = "ENOENT"
              /\ files' = files /\ nextFileId' = nextFileId
              /\ calls' = calls]_vars

\* The call failed for a path that has a stored row
C13_Witness ==
    /\ last.op = "throw" /\ last.at = "stat" /\ last.error = "ENOENT"
    /\ RowsOf(files, last.path) # {}

IdsOf(rows) == {r.id : r \in rows}

\* What a sweep that returned has done: it altered no row, removed only
\* rows whose file is gone, kept every row whose file is there, removed
\* every row it had read whose file was gone when it began, and returned
\* the number of rows it removed
SweepPost(l, d) ==
    /\ l.after \subseteq l.before
    /\ \A r \in l.before \ l.after : d[r.path] = NULL
    /\ \A r \in l.before : d[r.path] # NULL => r \in l.after
    /\ \A r \in l.snapshot : r.path \in l.missingAtStart => r.id \notin IdsOf(l.after)
    /\ l.returned = Cardinality(l.before \ l.after)

\* C20: rows of files are removed by the sweep alone.  A step in which
\* cleanupMissingFiles returns removes exactly the rows of missing files
\* and returns their number; every other step keeps every row id.
C20_RowsRemovedBySweepOnly ==
    [][IF last'.op = "cleanup"
       THEN files' = last'.after /\ SweepPost(last', disk')
       ELSE IdsOf(files) \subseteq IdsOf(files')]_vars

\* A sweep removed the row of a vanished file and kept the row of a file
\* that is there
C20_Witness ==
    /\ last.op = "cleanup"
    /\ last.returned = 1
    /\ last.before \ last.after # {}
    /\ \E r \in last.after : disk[r.path] # NULL

(***************************************************************************)
(* Properties of overlapping getOrCreateFileRecord calls                   *)
(***************************************************************************)
\* The call in slot i, whose lookup found no row of its path, ends in this
\* step
FirstIndexingEnds(i) ==
    /\ calls[i].stage \in {"hash", "duration"} \cup ThumbStages
    /\ calls[i].existing = NULL
    /\ calls'[i] = IdleCall

\* C16: two getOrCreateFileRecord calls on a path without a stored row
\* that overlap both complete without error, and when each has ended the
\* one row of the path holds what that call wrote.
C16_RacingIndexersSafe ==
    [][\A i \in CallIds :
          FirstIndexingEnds(i) =>
              /\ last'.op = "resolve"
              /\ RowsOf(files', calls[i].path) = {last'.record}]_vars

(***************************************************************************)
(* Properties of the playlist methods under a crash                        *)
(***************************************************************************)
\* C14: when the process stops between two statements of
\* removeFromPlaylist or reorderPlaylistItem, the stored playlist_items
\* are those before the call or those the whole call leaves, and a
\* playlist with indices 0..N-1 before the call has indices 0..N-1.
C14_CrashAtomic ==
    last.op = "crash" =>
        /\ playlist_items \in {last.before, last.complete}
        /\ Contiguous(last.before, last.playlist_id) =>
              Contiguous(playlist_items, last.playlist_id)

(***************************************************************************)
(* Properties of createPlaylist, updatePlaylist, deletePlaylist            *)
(***************************************************************************)
NamesUnique(pls) == \A a, b \in pls : a.name = b.name => a = b

\* The call of this step was asked to give a playlist a name that another
\* playlist has
DuplicateNameAsked ==
    /\ last'.op \in {"throw", "createPlaylist", "updatePlaylist"}
    /\ last'.method \in {"createPlaylist", "updatePlaylist"}
    /\ last'.name # NULL
    /\ \E p \in playlists : p.name = last'.name[1] /\ p.id # last'.id
    /\ last'.method = "updatePlaylist" => \E p \in playlists : p.id = last'.id

\* C17: no two playlists have one name; createPlaylist with a name that
\* is taken, and updatePlaylist renaming a playlist to the name of another,
\* throw and leave playlists and playlist_items as they were.
C17_PlaylistNamesUnique ==
    [][/\ NamesUnique(playlists')
       /\ DuplicateNameAsked =>
             /\ last'.op = "throw" /\ last'.error = "UNIQUE"
             /\ playlists' = playlists
             /\ playlist_items' = playlist_items]_vars

\* A rename to a taken name was refused, with items stored
C17_Witness ==
    /\ last.op = "throw" /\ last.method = "updatePlaylist" /\ last.error = "UNIQUE"
    /\ Cardinality(playlists) = 2
    /\ playlist_items # {}

\* C18: every row of playlist_items has the id of a row of playlists,
\* whatever calls were made.
C18_ItemsOwned ==
    \A it \in playlist_items : \E p \in playlists : p.id = it.playlist_id

(***************************************************************************)
(* Properties of getMediaFromDirectory                                     *)
(***************************************************************************)
Range(seq) == {seq[k] : k \in 1..Len(seq)}

\* What the scan returns with: a file with a stored row is given by that
\* row, any other by the minimal record (empty hash, no duration, no
\* thumbnail) and is queued; none of the queued files has a stored row or
\* a call begun
ScanPost(l, rows, cs) ==
    /\ \A r \in Range(l.fileRecords) :
          IF RowsOf(rows, r.path) # {}
          THEN r \in rows
          ELSE /\ r.hash = EmptyHash /\ r.duration = NULL /\ r.thumbnail_path = NULL
               /\ r.path \in Range(l.filesToProcess)
    /\ \A p \in Range(l.filesToProcess) :
          /\ RowsOf(rows, p) = {}
          /\ \A i \in CallIds : cs[i].path # p
    /\ l.removeDuplicates = FALSE =>
          Range(l.result) = {MediaUrl(r.path) : r \in Range(l.fileRecords)}

HashAsSaid(p, outcome, h, content) ==
    IF Ext(p) \in videoExtensions
    THEN outcome \in FfmpegOutcomes /\ (outcome # "md5" => h = FileHash(content))
    ELSE outcome = "none" /\ h = FileHash(content)

\* C21: hashFile does not throw because of ffmpeg: for a video, when the
\* tool is missing, fails or prints no digest, the whole-file digest is
\* returned; for a file that is no video ffmpeg is not run and the
\* whole-file digest is returned.
C21_HashFallsBack ==
    [][/\ \A i \in CallIds :
             /\ calls[i].stage = "hash" /\ disk[calls[i].path] # NULL
                   /\ calls'[i] # calls[i] =>
                      ~(last'.op = "throw" /\ last'.at = "hashFile")
             /\ calls'[i].hashed =>
                   HashAsSaid(calls'[i].path, calls'[i].ffmpeg, calls'[i].hash[1],
                              calls'[i].read[1])
       /\ last'.op = "resolve" /\ last'.hashed =>
             HashAsSaid(last'.path, last'.ffmpeg, last'.record.hash,
                        last'.record.hashedContent)]_vars

\* A video was indexed by its whole-file digest after ffmpeg failed
C21_Witness ==
    /\ last.op = "resolve" /\ last.hashed
    /\ Ext(last.path) \in videoExtensions
    /\ last.ffmpeg \in {"missing", "error", "garbage"}
    /\ last.record.hash = FileHash(last.record.hashedContent)
    /\ last.record \in files

\* C22: generateThumbnail returns null only when all three attempts
\* failed: a call that ran ffmpeg and left the asset of the hash behind
\* returns the reference.
C22_ReferenceWhenAnAttemptSucceeds ==
    /\ last.op = "resolve" /\ last.generated # NULL
    /\ Ext(last.path) \in videoExtensions
    /\ ~last.hadAsset /\ last.extracted
    /\ last.hash[1] \in thumbnails
    => last.generated[1] = ThumbnailRef(last.hash[1])

(***************************************************************************)
(* Properties of the background loops                                      *)
(***************************************************************************)
\* The call slots with a background getOrCreateFileRecord call in flight
InFlight == {i \in CallIds : calls[i] # IdleCall}

\* C23: background indexing runs with bounded concurrency: however many
\* scans are issued while earlier background work is running, the
\* background getOrCreateFileRecord calls in flight stay below a bound
\* that does not grow with the number of scans: they are fewer than the
\* scans issued.
C23_BoundedBackground == Cardinality(InFlight) < MaxCalls

\* C24: external tool invocations are time-bounded: background indexing
\* that is under way is through in the end, even if an ffmpeg spawned for
\* the stream hash or for a frame never exits.
C24_IndexingCompletes == (~NoBackground) ~> NoBackground

(***************************************************************************)
(* Properties of the user history                                          *)
(***************************************************************************)
\* The 'user' rows of rows with this id, platform and service
UserRows(rows, userId, platform, service) ==
    {r \in rows : /\ r.type = "user" /\ r.value = <<"id", userId>>
                  /\ r.platform = Some(platform) /\ r.service = Some(service)}

\* C25: user history is keyed by (user id, platform, service): a call of
\* addUserToHistory leaves exactly one row for its triple, with use_count 1
\* if there was none and one more than before if there was one, and leaves
\* every other row, the rows of the same user id with another platform or
\* another service included, as it was; so n calls with one triple give
\* one row with use_count n, and calls that differ in platform or service
\* give separate rows with their own counts.
C25_UserKeyedByTriple ==
    [][\A u \in Values, p \in Platforms, sv \in Services :
          addUserToHistory(u, p, sv) =>
             LET before == UserRows(history, u, p, sv)
                 after == UserRows(history', u, p, sv)
             IN  /\ Cardinality(before) <= 1
                 /\ Cardinality(after) = 1
                 /\ \A r \in after :
                       /\ before = {} => r.use_count = 1
                       /\ \A b \in before : r.use_count = b.use_count + 1
                 /\ history' \ after = history \ before]_vars

\* The same user id was recorded twice with one platform and service and
\* once with another service or platform: two rows, with use_count 2 and 1
C25_Witness ==
    /\ last.op = "record" /\ last.type = "user"
    /\ \E r, q \in history :
          /\ r.type = "user" /\ q.type = "user" /\ r.value = q.value
          /\ r.platform # q.platform \/ r.service # q.service
          /\ r.use_count = 2 /\ q.use_count = 1

(***************************************************************************)
(* Properties of updated_at                                                *)
(***************************************************************************)
\* C26: every addToPlaylist, removeFromPlaylist or reorderPlaylistItem
\* call that changes the item list of a playlist (adds an item, removes
\* one, or changes an index) sets that playlist's updated_at to the
\* current time, and leaves the row of every other playlist as it was.
C26_TouchOnChange ==
    [][\A pid \in PlaylistIds :
          ItemsOf(playlist_items', pid) # ItemsOf(playlist_items, pid) =>
             /\ \A p \in playlists' : p.id = pid => p.updated_at = now
             /\ {p \in playlists' : p.id # pid} = {p \in playlists : p.id # pid}]_vars

\* After the clock went on, a call has changed the items of one playlist:
\* that playlist carries the current time and another the time it had
C26_Witness ==
    /\ last.op \in {"add", "remove", "reorder"}
    /\ now > 0
    /\ \E p, q \in playlists :
          /\ p.updated_at = now /\ q.updated_at = 0
          /\ ItemsOf(playlist_items, p.id) # {}

(***************************************************************************)
(* Properties of overlapping and out-of-range playlist calls               *)
(***************************************************************************)
\* C27: the index invariant survives overlapping adds: when addToPlaylist
\* calls on one playlist overlap, or a removeFromPlaylist or
\* reorderPlaylistItem runs while an addToPlaylist is awaiting, then once
\* all calls have returned the order_index values of every playlist are
\* exactly 0..N-1.
C27_ContiguousAfterOverlap ==
    addCalls = {} => \A pid \in PlaylistIds : Contiguous(playlist_items, pid)

\* C28: reorderPlaylistItem with a newIndex outside 0..N-1 on a playlist
\* whose order_index values are 0..N-1 leaves them 0..N-1.
C28_OutOfRangeKeepsContiguity ==
    [][(/\ last'.op = "reorder" /\ ~last'.inRange
        /\ \A pid \in PlaylistIds : Contiguous(playlist_items, pid))
       => \A pid \in PlaylistIds : Contiguous(playlist_items', pid)]_vars

(***************************************************************************)
(* Properties of stale records                                             *)
(***************************************************************************)
\* The file at p is there and a row stored for p has a (size, mtime) that
\* differs from the file's
Stale(p) ==
    /\ disk[p] # NULL
    /\ \E r \in RowsOf(files, p) : ~Unchanged(r, Stat(disk[p][1]))

\* C29: getCachedRecord(path) never returns a record whose stored (size,
\* mtime) differ from the current (size, mtime) of the file: it returns
\* null when the file has changed since it was indexed.
C29_CachedRecordIsCurrent ==
    (last.op = "cached" /\ last.record # NULL /\ disk[last.path] # NULL) =>
        Unchanged(last.record[1], Stat(disk[last.path][1]))

\* C30: a directory scan re-indexes stale records: when a scan has
\* returned a record of a supported file whose stored (size, mtime) differ
\* from the file's, the stored record comes to carry the file's (size,
\* mtime) and the hash of its content.
C30_ScanReindexesStale ==
    \A p \in Paths :
        (/\ last.op = "scan"
         /\ \E r \in Range(last.fileRecords) : r.path = p
         /\ Stale(p))
        ~> (/\ ~Stale(p)
            /\ \A r \in RowsOf(files, p) : r.hashedContent = disk[p][1].content)

(***************************************************************************)
(* Properties of the background indexing                                   *)
(***************************************************************************)
\* The file at p is gone or has a stored record with a hash
Warmed(p) == disk[p] = NULL \/ \E r \in RowsOf(files, p) : r.hash # EmptyHash

\* C31: the cache is warmed for the next request: every file a scan has
\* queued as uncached comes, if it is still there, to have a stored record
\* with a non-empty hash; and a scan queues no file that has a stored
\* record, so a later scan of the unchanged directory starts no background
\* work.
C31_CacheWarmed ==
    /\ \A p \in Paths :
          (last.op = "scan" /\ p \in Range(last.filesToProcess)) ~> Warmed(p)
    /\ [][last'.op = "scan" =>
            \A p \in Range(last'.filesToProcess) : RowsOf(files', p) = {}]_vars

\* A later scan has found the two files of the directory with their stored
\* records, hashed, and has queued nothing
C31_Witness ==
    /\ last.op = "scan"
    /\ Len(last.fileRecords) = 2
    /\ \A r \in Range(last.fileRecords) : r.hash # EmptyHash /\ r \in files
    /\ last.filesToProcess = << >>
    /\ loops = {}

(***************************************************************************)
(* Properties of the result of getMediaFromDirectory                       *)
(***************************************************************************)
\* The URLs of the result that are of files the scan found uncached
UncachedInResult(l) ==
    {u \in Range(l.result) : \E p \in Range(l.filesToProcess) : u = MediaUrl(p)}

\* C32: with duplicate removal on, the files of a scan that are not yet
\* hashed collide under the empty hash: the result holds, of the uncached
\* files, the first in listing order and no other; with duplicate removal
\* off the result holds every record of the scan once, and so every
\* supported file of the directory.
C32_PlaceholdersCollide ==
    last.op = "scan" =>
        IF last.removeDuplicates
        THEN /\ Cardinality(UncachedInResult(last)) <= 1
             /\ last.filesToProcess # << >> =>
                   UncachedInResult(last) = {MediaUrl(Head(last.filesToProcess))}
        ELSE /\ Len(last.result) = Len(last.fileRecords)
             /\ Range(last.result) = {MediaUrl(r.path) : r \in Range(last.fileRecords)}
             /\ \A p \in Paths :
                   disk[p] # NULL /\ Ext(p) \in supportedExtensions =>
                      MediaUrl(p) \in Range(last.result)

\* A scan with duplicate removal on has found two uncached files, the
\* later in the order of the file names first, and has returned one URL
C32_Witness ==
    /\ last.op = "scan" /\ last.removeDuplicates
    /\ Len(last.filesToProcess) = 2
    /\ last.filesToProcess[1] > last.filesToProcess[2]
    /\ Len(last.result) = 1

(***************************************************************************)
(* Properties of the failures within a batch                               *)
(***************************************************************************)
\* The files that wait in a background loop
Queued(ls) == UNION {Range(l.filesToProcess) : l \in ls}

\* C33: a failure on one path does not abort a batch: a stat that fails
\* during the listing passes over that file and the scan goes on with the
\* records it has; a getOrCreateFileRecord call that rejects in the
\* background loop leaves the files after it queued, and every file queued
\* when a call rejected is indexed if it is still there.
C33_FailureDoesNotAbortBatch ==
    /\ [][(/\ scan # NULL /\ scan[1].stage = "stat" /\ scan' # scan
           /\ disk[Head(scan[1].listing)] = NULL)
          => IF Tail(scan[1].listing) = << >>
             THEN last'.op = "scan" /\ last'.fileRecords = scan[1].fileRecords
             ELSE /\ scan' # NULL
                  /\ scan'[1].listing = Tail(scan[1].listing)
                  /\ scan'[1].fileRecords = scan[1].fileRecords]_vars
    /\ [][last'.op = "throw" =>
            \A l \in loops :
               \/ l \in loops'
               \/ Range(Tail(l.filesToProcess)) \subseteq Queued(loops')]_vars
    /\ \A p \in Paths :
          (last.op = "throw" /\ p \in Queued(loops)) ~> Warmed(p)

\* The first call of a background loop has rejected, its file having
\* vanished, and the second file of the loop is still queued and there
C33_Witness ==
    /\ last.op = "throw"
    /\ \E p \in Queued(loops) : disk[p] # NULL /\ RowsOf(files, p) = {}
    /\ NoCall

(***************************************************************************)
(* Properties of thumbnail_path                                            *)
(***************************************************************************)
\* C34: in every reachable state of the files table the thumbnail_path of
\* a record is null or the reference derived from the hash the record
\* has, also after the file changed and was indexed again.
C34_ThumbnailPathOfHash ==
    \A r \in files : r.thumbnail_path = NULL \/ r.thumbnail_path = ThumbnailRef(r.hash)

(***************************************************************************)
(* Properties of the list-directories action                               *)
(***************************************************************************)
\* The stages of a call in which hashFile, the duration probe or
\* generateThumbnail runs
ExpensiveStages == {"hash", "duration"} \cup ThumbStages

\* C35: a directory listing never blocks on expensive work: while the
\* list-directories action has not returned its response, no call it
\* awaits is hashing a file or extracting a thumbnail.
C35_ListingDoesNotWait ==
    listing # NULL => \A i \in CallIds : calls[i].stage \notin ExpensiveStages

(***************************************************************************)
(* Properties of getRecentUsers                                            *)
(***************************************************************************)
\* A platform or service argument: not given, or one of the strings
OptionalPlatforms == {NULL} \cup {Some(p) : p \in Platforms}
OptionalServices == {NULL} \cup {Some(sv) : sv \in Services}

\* C36: getRecentUsers(limit, platform?, service?) applies every filter it
\* is given: each entry returned is of type 'user', has the platform given
\* when one is given, and has the service given when one is given, also
\* when a service is given without a platform.
C36_RecentUsersFiltered ==
    \A limit \in Limits, platform \in OptionalPlatforms, service \in OptionalServices :
        \A s \in getRecentUsers(limit, platform, service) : \A a \in 1..Len(s) :
            /\ s[a].type = "user"
            /\ platform # NULL => s[a].platform = platform
            /\ service # NULL => s[a].service = service

(***************************************************************************)
(* Properties of the calls that change no item                             *)
(***************************************************************************)
\* C37: an add, remove or move call that leaves the item list unchanged
\* (the URL is already present; the URL is not in the playlist; the item
\* is at the index asked for) is a complete no-op: it changes neither
\* playlist_items nor a row of playlists, updated_at included.
C37_NoChangeNoTouch ==
    [][(last'.op \in {"add", "remove", "reorder"} /\ playlist_items' = playlist_items)
       => playlists' = playlists]_vars

(***************************************************************************)
(* Properties of an addToPlaylist that inserts                             *)
(***************************************************************************)
\* C38: addToPlaylist of a URL not yet in a playlist with N items appends
\* it at the end: the one new item has order_index N, every other item is
\* as it was, getPlaylistItems gives the old list followed by the new URL,
\* and the item is inserted whether generatePlaylistThumbnail gave a
\* reference or null.
C38_AddAppends ==
    [][(last'.op = "add" /\ ~last'.ignored) =>
          \E it \in playlist_items' \ playlist_items :
             /\ playlist_items' = playlist_items \cup {it}
             /\ it.order_index = Count(playlist_items, it.playlist_id)
             /\ Listings(playlist_items', it.playlist_id) =
                   {Append(l, it.media_url) :
                       l \in Listings(playlist_items, it.playlist_id)}]_vars
====
